---------------------------- MODULE Spec2Model ----------------------------
(***************************************************************************)
(* Gatekeeper (Edge Gateway) + Proxy (Router) + routing strategies of the  *)
(* LOG8415E final assignment, modelled from src/application/*.py.          *)
(*                                                                         *)
(* Text is modelled at character level: a Python str is a sequence of      *)
(* one-character strings.  A query is the record [body, pad]: the text     *)
(* `body` followed by `pad` spaces (a run of trailing spaces is kept as a  *)
(* count so that texts of MAX_QUERY_LENGTH characters can be built).       *)
(***************************************************************************)
EXTENDS Integers, Sequences, FiniteSets, TLC

VARIABLES
    MANAGER_HOST,           \* proxy.py module global (config)
    WORKER_HOSTS,           \* proxy.py module global (config), a sequence
    current_strategy,       \* proxy.py module global: the strategy instance
    current_strategy_name,  \* proxy.py module global: its name
    now,                    \* wall clock read by time.time(), in seconds
    gw,                     \* Gatekeeper: each client's execute_query call
    obs,                    \* the call just made to the Router directly, if any
    input,                  \* argument of the pure function under study
    output                  \* its result

vars == << MANAGER_HOST, WORKER_HOSTS, current_strategy, current_strategy_name,
           now, gw, obs, input, output >>

sysvars == << MANAGER_HOST, WORKER_HOSTS, current_strategy,
              current_strategy_name, now, gw, obs >>

-----------------------------------------------------------------------------
(* Bounds of the model *)

\* longest free text, in atoms, given to validate_query / classify_query
MaxAtoms == 3

\* seconds of wall-clock time the model follows after the process started
MaxTime == 2

\* seconds of wall-clock time followed when a strategy instance is studied
\* on its own
MaxClock == 7

-----------------------------------------------------------------------------
(* Characters and the str methods the code uses *)

LowerCase == << "a","b","c","d","e","f","g","h","i","j","k","l","m",
                "n","o","p","q","r","s","t","u","v","w","x","y","z" >>
UpperCase == << "A","B","C","D","E","F","G","H","I","J","K","L","M",
                "N","O","P","Q","R","S","T","U","V","W","X","Y","Z" >>
Digits == { "0", "1", "2" }
WhiteSpace == { " ", "\t", "\n" }

LowerSet == { LowerCase[i] : i \in 1..26 }
UpperSet == { UpperCase[i] : i \in 1..26 }

ToUpper == [ c \in LowerSet |-> UpperCase[CHOOSE i \in 1..26 : LowerCase[i] = c] ]
ToLower == [ c \in UpperSet |-> LowerCase[CHOOSE i \in 1..26 : UpperCase[i] = c] ]

\* str.isspace() of one character
IsSpace(c) == c \in WhiteSpace

\* the regex class \w: letters, digits and the underscore
IsWord(c) == c \in LowerSet \/ c \in UpperSet \/ c \in Digits \/ c = "_"

char_upper(c) == IF c \in LowerSet THEN ToUpper[c] ELSE c
char_swapcase(c) == IF c \in LowerSet THEN ToUpper[c]
                    ELSE IF c \in UpperSet THEN ToLower[c] ELSE c

\* str.upper()
str_upper(s) == [ i \in 1..Len(s) |-> char_upper(s[i]) ]
str_swapcase(s) == [ i \in 1..Len(s) |-> char_swapcase(s[i]) ]

\* str.strip(): drop leading and trailing whitespace
str_strip(s) ==
    LET n == Len(s)
        blank == \A i \in 1..n : IsSpace(s[i])
        lo == CHOOSE i \in 1..n : ~IsSpace(s[i]) /\ \A j \in 1..(i-1) : IsSpace(s[j])
        hi == CHOOSE i \in 1..n : ~IsSpace(s[i]) /\ \A j \in (i+1)..n : IsSpace(s[j])
    IN IF blank THEN << >> ELSE SubSeq(s, lo, hi)

\* (variant) a strip of one trailing ch only
str_rstrip_once(s, ch) ==
    IF Len(s) > 0 /\ s[Len(s)] = ch THEN SubSeq(s, 1, Len(s) - 1) ELSE s

\* str.rstrip(ch): drop EVERY trailing occurrence of the character ch
str_rstrip(s, ch) ==
    LET n == Len(s)
        all == \A i \in 1..n : s[i] = ch
        hi == CHOOSE i \in 1..n : s[i] # ch /\ \A j \in (i+1)..n : s[j] = ch
    IN IF all THEN << >> ELSE SubSeq(s, 1, hi)

\* str.startswith(p)
str_startswith(s, p) == Len(p) <= Len(s) /\ SubSeq(s, 1, Len(p)) = p

\* the operator `p in s` on two strs
str_contains(s, p) ==
    \E i \in 1..(Len(s) - Len(p) + 1) : SubSeq(s, i, i + Len(p) - 1) = p

-----------------------------------------------------------------------------
(* Query texts: body followed by pad spaces *)

Text(body, pad) == [ body |-> body, pad |-> pad ]

\* len(query)
query_len(q) == Len(q.body) + q.pad

\* the characters a left-to-right scan of the query sees; a run of trailing
\* spaces is one or more spaces to every scan made of it here (no pattern
\* below matches inside trailing whitespace), so one space stands for the run
query_chars(q) == IF q.pad > 0 THEN q.body \o << " " >> ELSE q.body

\* query.strip(): the pad is trailing whitespace and goes with it
query_strip(q) == str_strip(q.body)

-----------------------------------------------------------------------------
(* Literal words the code names, as character sequences *)

W_SELECT == << "S","E","L","E","C","T" >>
W_DROP == << "D","R","O","P" >>
W_ALTER == << "A","L","T","E","R" >>
W_CREATE == << "C","R","E","A","T","E" >>
W_TRUNCATE == << "T","R","U","N","C","A","T","E" >>
W_GRANT == << "G","R","A","N","T" >>
W_REVOKE == << "R","E","V","O","K","E" >>
W_LOAD_FILE == << "L","O","A","D","_","F","I","L","E" >>
W_INTO == << "I","N","T","O" >>
W_SHUTDOWN == << "S","H","U","T","D","O","W","N" >>
W_TABLE == << "T","A","B","L","E" >>
W_DATABASE == << "D","A","T","A","B","A","S","E" >>
W_INDEX == << "I","N","D","E","X" >>
W_VIEW == << "V","I","E","W" >>
W_TRIGGER == << "T","R","I","G","G","E","R" >>
W_PROCEDURE == << "P","R","O","C","E","D","U","R","E" >>
W_FUNCTION == << "F","U","N","C","T","I","O","N" >>
W_OUTFILE == << "O","U","T","F","I","L","E" >>
W_DUMPFILE == << "D","U","M","P","F","I","L","E" >>
W_INSERT == << "I","N","S","E","R","T" >>
W_FOR_UPDATE == << "F","O","R"," ","U","P","D","A","T","E" >>
W_FOR_SHARE == << "F","O","R"," ","S","H","A","R","E" >>
W_LPAREN == << "(" >>

-----------------------------------------------------------------------------
(* gatekeeper.py: the blocklist and validate_query *)

DdlObjects == { W_TABLE, W_DATABASE, W_INDEX, W_VIEW, W_TRIGGER, W_PROCEDURE,
                W_FUNCTION }

\* One compiled pattern: \b kw, then whitespace (sep "+": one or more, "*":
\* zero or more, "": none), then one of alts, then \b when endb.  `pattern`
\* is the regex source, which the rejection message quotes.
Pat(src, kw, sep, alts, endb) ==
    [ pattern |-> src, kw |-> kw, sep |-> sep, alts |-> alts, endb |-> endb ]

BLOCKED_PATTERNS == <<
    Pat("\\bDROP\\s+(TABLE|DATABASE|INDEX|VIEW|TRIGGER|PROCEDURE|FUNCTION)\\b",
        W_DROP, "+", DdlObjects, TRUE),
    Pat("\\bALTER\\s+(TABLE|DATABASE)\\b",
        W_ALTER, "+", { W_TABLE, W_DATABASE }, TRUE),
    Pat("\\bCREATE\\s+(TABLE|DATABASE|INDEX|VIEW|TRIGGER|PROCEDURE|FUNCTION)\\b",
        W_CREATE, "+", DdlObjects, TRUE),
    Pat("\\bTRUNCATE\\s+TABLE\\b", W_TRUNCATE, "+", { W_TABLE }, TRUE),
    Pat("\\bGRANT\\b", W_GRANT, "", { << >> }, TRUE),
    Pat("\\bREVOKE\\b", W_REVOKE, "", { << >> }, TRUE),
    Pat("\\bLOAD_FILE\\s*\\(", W_LOAD_FILE, "*", { W_LPAREN }, FALSE),
    Pat("\\bINTO\\s+(OUTFILE|DUMPFILE)\\b",
        W_INTO, "+", { W_OUTFILE, W_DUMPFILE }, TRUE),
    Pat("\\bSHUTDOWN\\b", W_SHUTDOWN, "", { << >> }, TRUE) >>

MAX_QUERY_LENGTH == 10000

\* (variant) patterns written without \b
re_word_boundary_none(s, i) == TRUE

\* \b at the gap before s[i] (i in 1..Len(s)+1): exactly one side is a \w
re_word_boundary(s, i) ==
    LET left == i > 1 /\ IsWord(s[i-1])
        right == i <= Len(s) /\ IsWord(s[i])
    IN left # right

\* re.IGNORECASE comparison of a slice of s with a literal
re_literal_at(s, i, lit) ==
    /\ i + Len(lit) - 1 <= Len(s)
    /\ \A k \in 1..Len(lit) : char_upper(s[i + k - 1]) = char_upper(lit[k])

\* the pattern P matches s starting at position i
re_match_at(P, s, i) ==
    LET n == Len(s)
        kwEnd == i + Len(P.kw) - 1
        gaps == IF P.sep = "+" THEN 1..(n - kwEnd)
                ELSE IF P.sep = "*" THEN 0..(n - kwEnd)
                ELSE { 0 }
    IN /\ re_word_boundary(s, i)
       /\ re_literal_at(s, i, P.kw)
       /\ \E g \in gaps :
            /\ \A j \in 1..g : IsSpace(s[kwEnd + j])
            /\ \E a \in P.alts :
                 /\ re_literal_at(s, kwEnd + g + 1, a)
                 /\ P.endb => re_word_boundary(s, kwEnd + g + Len(a) + 1)

\* pattern.search(query)
re_search(P, s) == \E i \in 1..Len(s) : re_match_at(P, s, i)

\* validate_query's loop over BLOCKED_REGEX: the first pattern that matches
first_blocked(q) ==
    LET s == query_chars(q)
        hits == { k \in 1..Len(BLOCKED_PATTERNS) : re_search(BLOCKED_PATTERNS[k], s) }
    IN IF hits = {} THEN 0 ELSE CHOOSE k \in hits : \A m \in hits : k <= m

\* error messages (f-strings are kept as their fragments)
MsgTooLong == << "Query too long (max ", ToString(MAX_QUERY_LENGTH), " characters)" >>
MsgEmpty == << "Empty query" >>
MsgMulti == << "Multiple statements not allowed" >>
MsgBlocked(k) == << "Blocked operation detected: ", BLOCKED_PATTERNS[k].pattern >>
MsgNone == << >>

\* (variant) the emptiness check made before the length check
validate_query_blank_first(q) ==
    IF query_strip(q) = << >> THEN << FALSE, MsgEmpty >>
    ELSE IF query_len(q) > MAX_QUERY_LENGTH THEN << FALSE, MsgTooLong >>
    ELSE IF str_contains(str_rstrip(query_strip(q), ";"), << ";" >>)
         THEN << FALSE, MsgMulti >>
    ELSE IF first_blocked(q) # 0 THEN << FALSE, MsgBlocked(first_blocked(q)) >>
    ELSE << TRUE, MsgNone >>

\* validate_query(query) -> (is_valid, error_msg)
validate_query(q) ==
    IF query_len(q) > MAX_QUERY_LENGTH THEN << FALSE, MsgTooLong >>
    ELSE IF query_strip(q) = << >> THEN << FALSE, MsgEmpty >>
    ELSE IF str_contains(str_rstrip(query_strip(q), ";"), << ";" >>)
         THEN << FALSE, MsgMulti >>
    ELSE IF first_blocked(q) # 0 THEN << FALSE, MsgBlocked(first_blocked(q)) >>
    ELSE << TRUE, MsgNone >>

-----------------------------------------------------------------------------
(* strategies.py: classify_query *)

\* (variant) the comparison made without .upper()
classify_query_case_sensitive(q) ==
    LET query_upper == query_strip(q)
    IN IF str_startswith(query_upper, W_SELECT)
       THEN IF str_contains(query_upper, W_FOR_UPDATE)
               \/ str_contains(query_upper, W_FOR_SHARE)
            THEN "write"
            ELSE "read"
       ELSE "write"

classify_query(q) ==
    LET query_upper == str_upper(query_strip(q))
    IN IF str_startswith(query_upper, W_SELECT)
       THEN IF str_contains(query_upper, W_FOR_UPDATE)
               \/ str_contains(query_upper, W_FOR_SHARE)
            THEN "write"
            ELSE "read"
       ELSE "write"

-----------------------------------------------------------------------------
(* proxy.py: the SELECT test of execute_query *)

\* query.strip().upper().startswith("SELECT")
is_select(q) == str_startswith(str_upper(query_strip(q)), W_SELECT)

-----------------------------------------------------------------------------
(* The query texts the clients of the Gatekeeper send *)

\* each text is named by its Python literal; QueryText gives its characters
QueryText ==
    [ q \in { "SELECT 1", "select 1 for update", "INSERT x", "DROP TABLE x",
              "SELECT 1; SELECT 2", " " } |->
        CASE q = "SELECT 1" -> Text(W_SELECT \o << " ", "1" >>, 0)
          [] q = "select 1 for update" ->
                Text(str_swapcase(W_SELECT \o << " ", "1", " " >> \o W_FOR_UPDATE), 0)
          [] q = "INSERT x" -> Text(W_INSERT \o << " ", "x" >>, 0)
          [] q = "DROP TABLE x" ->
                Text(W_DROP \o << " " >> \o W_TABLE \o << " ", "x" >>, 0)
          [] q = "SELECT 1; SELECT 2" ->
                Text(W_SELECT \o << " ", "1", ";", " " >> \o W_SELECT \o << " ", "2" >>, 0)
          [] q = " " -> Text(<< " " >>, 0) ]

Queries == DOMAIN QueryText

-----------------------------------------------------------------------------
(* The pure functions on those texts, tabulated once *)

ValidateTable == [ q \in Queries |-> validate_query(QueryText[q]) ]
ClassifyTable == [ q \in Queries |-> classify_query(QueryText[q]) ]
IsSelectTable == [ q \in Queries |-> is_select(QueryText[q]) ]

validate_of(q) == ValidateTable[q]
classify_of(q) == ClassifyTable[q]
is_select_of(q) == IsSelectTable[q]

-----------------------------------------------------------------------------
(* strategies.py: the strategy classes *)

\* Python's None where a str is expected
None == "None"

\* Optional numbers: << >> is None, << v >> is the value v
NoNum == << >>
Num(v) == << v >>

\* float('inf'), the latency of a failed probe; larger than every measured one
INF == 1000000

\* measure_tcp_latency's timeout (seconds) and CustomizedPingStrategy's TTL
probe_timeout == 2
cache_ttl == 5

DirectHitStrategy(manager_host, worker_hosts) ==
    [ cls |-> "DirectHitStrategy",
      manager_host |-> manager_host, worker_hosts |-> worker_hosts ]

RandomStrategy(manager_host, worker_hosts) ==
    [ cls |-> "RandomStrategy",
      manager_host |-> manager_host, worker_hosts |-> worker_hosts ]

\* (variant) the cache starts with the primary in it
CustomizedPingStrategy_primary_cached(manager_host, worker_hosts) ==
    [ cls |-> "CustomizedPingStrategy",
      manager_host |-> manager_host, worker_hosts |-> worker_hosts,
      cache_ttl |-> cache_ttl, cached_best |-> manager_host, cache_time |-> 0 ]

\* CustomizedPingStrategy.__init__
CustomizedPingStrategy(manager_host, worker_hosts) ==
    [ cls |-> "CustomizedPingStrategy",
      manager_host |-> manager_host, worker_hosts |-> worker_hosts,
      cache_ttl |-> cache_ttl, cached_best |-> None, cache_time |-> 0 ]

\* the keys of the STRATEGIES dict
STRATEGIES == { "direct_hit", "random", "customized" }

\* get_strategy(name, manager_host, worker_hosts); the caller has checked
\* name \in STRATEGIES (otherwise ValueError is raised, see init_strategy_raises)
get_strategy(name, manager_host, worker_hosts) ==
    CASE name = "direct_hit" -> DirectHitStrategy(manager_host, worker_hosts)
      [] name = "random"     -> RandomStrategy(manager_host, worker_hosts)
      [] name = "customized" -> CustomizedPingStrategy(manager_host, worker_hosts)

\* (variant) writes spread like reads: a replica when there is one
get_write_target_replica(self) ==
    IF self.worker_hosts # << >> THEN self.worker_hosts[1] ELSE self.manager_host

\* RoutingStrategy.get_write_target
get_write_target(self) == self.manager_host

\* What one call of measure_tcp_latency can give: a latency in ms after a
\* connect within the second, or float('inf') after a failure that is either
\* immediate (refused) or runs to the timeout
ProbeResults ==
    { [ lat |-> 1, secs |-> 0 ], [ lat |-> 2, secs |-> 0 ],
      [ lat |-> INF, secs |-> 0 ], [ lat |-> INF, secs |-> probe_timeout ] }

\* What the environment decides during one read-target selection:
\*   probe[i]  the outcome of measure_tcp_latency(worker_hosts[i])
\*   pick      the index random.choice draws (1 where it is not drawn: a
\*             probe round draws only when every probe failed)
ProbeEnvs(worker_hosts) ==
    LET n == Len(worker_hosts)
    IN { e \in [ probe : [ 1..n -> ProbeResults ], pick : 1..n ] :
           e.pick = 1 \/ \A i \in 1..n : e.probe[i].lat = INF }

\* seconds a probe round of the first n workers takes (the probes run one
\* after the other in _measure_all_latencies)
RECURSIVE probe_seconds(_, _)
probe_seconds(env, n) ==
    IF n = 0 THEN 0 ELSE probe_seconds(env, n - 1) + env.probe[n].secs

\* min(latencies, key=latencies.get): the first host of least latency
min_latency_index(env, n) ==
    CHOOSE i \in 1..n :
        /\ \A j \in 1..n : env.probe[i].lat <= env.probe[j].lat
        /\ \A j \in 1..(i-1) : env.probe[j].lat > env.probe[i].lat

\* A selection returns the host, the instance as the call leaves it, whether it
\* probed, and the seconds it blocked.
Selection(host, self, probed, took) ==
    [ host |-> host, self |-> self, probed |-> probed, took |-> took ]

\* DirectHitStrategy.get_read_target
DirectHit_get_read_target(self) == Selection(self.manager_host, self, FALSE, 0)

\* (variant) without the test for an empty worker list: random.choice([])
\* raises IndexError
Random_get_read_target_no_guard(self, env) ==
    IF self.worker_hosts = << >>
    THEN Selection("IndexError", self, FALSE, 0)
    ELSE Selection(self.worker_hosts[env.pick], self, FALSE, 0)

\* (variant) the draw made among all the nodes, the primary in the first
\* place
Random_get_read_target_any_node(self, env) ==
    IF self.worker_hosts = << >>
    THEN Selection(self.manager_host, self, FALSE, 0)
    ELSE Selection((<< self.manager_host >> \o self.worker_hosts)[env.pick],
                   self, FALSE, 0)

\* RandomStrategy.get_read_target
Random_get_read_target(self, env) ==
    IF self.worker_hosts = << >>
    THEN Selection(self.manager_host, self, FALSE, 0)
    ELSE Selection(self.worker_hosts[env.pick], self, FALSE, 0)

\* (variant) a cached host used whatever its age
Customized_get_read_target_no_expiry(self, current_time, env) ==
    IF self.worker_hosts = << >>
    THEN Selection(self.manager_host, self, FALSE, 0)
    ELSE IF self.cached_best # None
    THEN Selection(self.cached_best, self, FALSE, 0)
    ELSE LET n == Len(self.worker_hosts)
             best == min_latency_index(env, n)
             best_host == IF env.probe[best].lat = INF
                          THEN self.worker_hosts[env.pick]
                          ELSE self.worker_hosts[best]
         IN Selection(best_host,
                      [ self EXCEPT !.cached_best = best_host,
                                    !.cache_time = current_time ],
                      TRUE, probe_seconds(env, n))

\* (variant) the primary as the fallback when every probe failed
Customized_get_read_target_fallback_primary(self, current_time, env) ==
    IF self.worker_hosts = << >>
    THEN Selection(self.manager_host, self, FALSE, 0)
    ELSE IF self.cached_best # None
            /\ (current_time - self.cache_time) < self.cache_ttl
    THEN Selection(self.cached_best, self, FALSE, 0)
    ELSE LET n == Len(self.worker_hosts)
             best == min_latency_index(env, n)
             best_host == IF env.probe[best].lat = INF
                          THEN self.manager_host
                          ELSE self.worker_hosts[best]
         IN Selection(best_host,
                      [ self EXCEPT !.cached_best = best_host,
                                    !.cache_time = current_time ],
                      TRUE, probe_seconds(env, n))

\* (variant) a first replica that did not answer is dropped from the list
Customized_get_read_target_prune_unreachable(self, current_time, env) ==
    IF self.worker_hosts = << >>
    THEN Selection(self.manager_host, self, FALSE, 0)
    ELSE IF self.cached_best # None
            /\ (current_time - self.cache_time) < self.cache_ttl
    THEN Selection(self.cached_best, self, FALSE, 0)
    ELSE LET n == Len(self.worker_hosts)
             best == min_latency_index(env, n)
             best_host == IF env.probe[best].lat = INF
                          THEN self.worker_hosts[env.pick]
                          ELSE self.worker_hosts[best]
         IN Selection(best_host,
                      [ self EXCEPT !.cached_best = best_host,
                                    !.cache_time = current_time,
                                    !.worker_hosts = IF env.probe[1].lat = INF
                                                     THEN Tail(@) ELSE @ ],
                      TRUE, probe_seconds(env, n))

\* (variant) the first replica that answers is taken, whatever its latency
Customized_get_read_target_first_reachable(self, current_time, env) ==
    IF self.worker_hosts = << >>
    THEN Selection(self.manager_host, self, FALSE, 0)
    ELSE IF self.cached_best # None
            /\ (current_time - self.cache_time) < self.cache_ttl
    THEN Selection(self.cached_best, self, FALSE, 0)
    ELSE LET n == Len(self.worker_hosts)
             answering == { i \in 1..n : env.probe[i].lat # INF }
             best_host == IF answering = { }
                          THEN self.worker_hosts[env.pick]
                          ELSE self.worker_hosts[CHOOSE i \in answering :
                                                    \A j \in answering : i <= j]
         IN Selection(best_host,
                      [ self EXCEPT !.cached_best = best_host,
                                    !.cache_time = current_time ],
                      TRUE, probe_seconds(env, n))

\* (variant) the host cached only when a replica answered, the time always
Customized_get_read_target_host_if_reachable(self, current_time, env) ==
    IF self.worker_hosts = << >>
    THEN Selection(self.manager_host, self, FALSE, 0)
    ELSE IF self.cached_best # None
            /\ (current_time - self.cache_time) < self.cache_ttl
    THEN Selection(self.cached_best, self, FALSE, 0)
    ELSE LET n == Len(self.worker_hosts)
             best == min_latency_index(env, n)
             failed == env.probe[best].lat = INF
             best_host == IF failed THEN self.worker_hosts[env.pick]
                          ELSE self.worker_hosts[best]
         IN Selection(best_host,
                      [ self EXCEPT !.cached_best = IF failed THEN @ ELSE best_host,
                                    !.cache_time = current_time ],
                      TRUE, probe_seconds(env, n))

\* CustomizedPingStrategy.get_read_target
Customized_get_read_target(self, current_time, env) ==
    IF self.worker_hosts = << >>
    THEN Selection(self.manager_host, self, FALSE, 0)
    ELSE IF self.cached_best # None
            /\ (current_time - self.cache_time) < self.cache_ttl
    THEN Selection(self.cached_best, self, FALSE, 0)
    ELSE LET n == Len(self.worker_hosts)
             best == min_latency_index(env, n)
             best_host == IF env.probe[best].lat = INF
                          THEN self.worker_hosts[env.pick]
                          ELSE self.worker_hosts[best]
         IN Selection(best_host,
                      [ self EXCEPT !.cached_best = best_host,
                                    !.cache_time = current_time ],
                      TRUE, probe_seconds(env, n))

\* dynamic dispatch of strategy.get_read_target()
get_read_target(self, current_time, env) ==
    CASE self.cls = "DirectHitStrategy" -> DirectHit_get_read_target(self)
      [] self.cls = "RandomStrategy" -> Random_get_read_target(self, env)
      [] self.cls = "CustomizedPingStrategy" ->
            Customized_get_read_target(self, current_time, env)

-----------------------------------------------------------------------------
(* proxy.py: the Router *)

\* current_strategy = None
NoStrategy == [ cls |-> "None" ]

\* the response envelope (both QueryResponse models have these fields)
QueryResponse(success, data, rows_affected, target_host, query_type, strategy, latency_ms, error) ==
    [ success |-> success, data |-> data, rows_affected |-> rows_affected,
      target_host |-> target_host, query_type |-> query_type,
      strategy |-> strategy, latency_ms |-> latency_ms, error |-> error ]

\* error texts are kept as fragments; << >> is None
NoError == << >>

\* The driver call that fails, if the run reaches it:
\*   connect_error  pymysql.connect raises pymysql.Error
\*   execute_error  cursor.execute raises pymysql.Error
\*   type_error     cursor.execute raises TypeError (args do not fit the query)
\*   fetch_error    cursor.fetchall raises pymysql.Error
\*   commit_error   conn.commit raises pymysql.Error
DbOutcomes == { "ok", "connect_error", "execute_error", "type_error",
                "fetch_error", "commit_error" }

DbRun(raised, data, rows_affected, opened, closed, committed, executed) ==
    [ raised |-> raised, data |-> data, rows_affected |-> rows_affected,
      opened |-> opened, closed |-> closed, committed |-> committed,
      executed |-> executed ]

\* (variant) the commit decided by classify_query instead of the SELECT test
db_execute_query_commit_writes(q, db) ==
    IF db = "connect_error"
    THEN DbRun("pymysql.Error", None, NoNum, 0, 0, FALSE, 0)
    ELSE IF db = "execute_error"
    THEN DbRun("pymysql.Error", None, NoNum, 1, 1, FALSE, 1)
    ELSE IF db = "type_error"
    THEN DbRun("TypeError", None, NoNum, 1, 1, FALSE, 1)
    ELSE IF classify_of(q) = "read"
    THEN IF db = "fetch_error"
         THEN DbRun("pymysql.Error", None, NoNum, 1, 1, FALSE, 1)
         ELSE DbRun(None, "rows", NoNum, 1, 1, FALSE, 1)
    ELSE IF db = "commit_error"
         THEN DbRun("pymysql.Error", None, NoNum, 1, 1, FALSE, 1)
         ELSE DbRun(None, None, Num(1), 1, 1, TRUE, 1)

\* (variant) get_db_connection without its `finally`: a connection is closed
\* only when the block ends without an exception
db_execute_query_leak_on_error(q, db) ==
    IF db = "connect_error"
    THEN DbRun("pymysql.Error", None, NoNum, 0, 0, FALSE, 0)
    ELSE IF db = "execute_error"
    THEN DbRun("pymysql.Error", None, NoNum, 1, 0, FALSE, 1)
    ELSE IF db = "type_error"
    THEN DbRun("TypeError", None, NoNum, 1, 0, FALSE, 1)
    ELSE IF is_select_of(q)
    THEN IF db = "fetch_error"
         THEN DbRun("pymysql.Error", None, NoNum, 1, 0, FALSE, 1)
         ELSE DbRun(None, "rows", NoNum, 1, 1, FALSE, 1)
    ELSE IF db = "commit_error"
         THEN DbRun("pymysql.Error", None, NoNum, 1, 0, FALSE, 1)
         ELSE DbRun(None, None, Num(1), 1, 1, TRUE, 1)

\* execute_query(host, query, args) inside get_db_connection(host): the
\* connections opened and closed, whether conn.commit() returned, and the
\* calls of cursor.execute
db_execute_query(q, db) ==
    IF db = "connect_error"
    THEN DbRun("pymysql.Error", None, NoNum, 0, 0, FALSE, 0)
    ELSE IF db = "execute_error"
    THEN DbRun("pymysql.Error", None, NoNum, 1, 1, FALSE, 1)
    ELSE IF db = "type_error"
    THEN DbRun("TypeError", None, NoNum, 1, 1, FALSE, 1)
    ELSE IF is_select_of(q)
    THEN IF db = "fetch_error"
         THEN DbRun("pymysql.Error", None, NoNum, 1, 1, FALSE, 1)
         ELSE DbRun(None, "rows", NoNum, 1, 1, FALSE, 1)
    ELSE IF db = "commit_error"
         THEN DbRun("pymysql.Error", None, NoNum, 1, 1, FALSE, 1)
         ELSE DbRun(None, None, Num(1), 1, 1, TRUE, 1)

\* (variant) init_strategy() called on every query, not only on the first
get_target_host_reinit(query_type, cs, name, current_time, env) ==
    LET inst == get_strategy("direct_hit", MANAGER_HOST, WORKER_HOSTS)
        sel == IF query_type = "write"
               THEN Selection(get_write_target(inst), inst, FALSE, 0)
               ELSE get_read_target(inst, current_time, env)
    IN [ sel |-> sel, name |-> "direct_hit" ]

\* get_target_host(query_type), on the globals (cs, name) read at the call
get_target_host(query_type, cs, name, current_time, env) ==
    LET lazy == cs = NoStrategy
        inst == IF lazy THEN get_strategy("direct_hit", MANAGER_HOST, WORKER_HOSTS)
                ELSE cs
        sel == IF query_type = "write"
               THEN Selection(get_write_target(inst), inst, FALSE, 0)
               ELSE get_read_target(inst, current_time, env)
    IN [ sel |-> sel, name |-> IF lazy THEN "direct_hit" ELSE name ]

\* (variant) the handler without its `except pymysql.Error`
execute_sql_query_uncaught(q, cs, name, current_time, env, db) ==
    LET query_type == classify_of(q)
        t == get_target_host(query_type, cs, name, current_time, env)
        target_host == t.sel.host
        run == db_execute_query(q, db)
        latency_ms == Num(1000 * t.sel.took)
    IN [ query_type |-> query_type,
         target_host |-> target_host,
         probed |-> t.sel.probed,
         took |-> t.sel.took,
         strategy_after |-> t.sel.self,
         name_after |-> t.name,
         run |-> run,
         raised |-> run.raised,
         response |->
            QueryResponse(TRUE, run.data, run.rows_affected, target_host,
                          query_type, t.name, latency_ms, NoError) ]

\* (variant) the name reported is the one the module was loaded with
execute_sql_query_default_name(q, cs, name, current_time, env, db) ==
    LET query_type == classify_of(q)
        t == get_target_host(query_type, cs, name, current_time, env)
        target_host == t.sel.host
        run == db_execute_query(q, db)
        latency_ms == Num(1000 * t.sel.took)
    IN [ query_type |-> query_type,
         target_host |-> target_host,
         probed |-> t.sel.probed,
         took |-> t.sel.took,
         strategy_after |-> t.sel.self,
         name_after |-> t.name,
         run |-> run,
         raised |-> IF run.raised = "pymysql.Error" THEN None ELSE run.raised,
         response |->
            IF run.raised = None
            THEN QueryResponse(TRUE, run.data, run.rows_affected, target_host,
                               query_type, "direct_hit", latency_ms, NoError)
            ELSE QueryResponse(FALSE, None, NoNum, target_host, query_type,
                               "direct_hit", latency_ms, << "pymysql.Error" >>) ]

\* POST /query of the Router: execute_sql_query(request).  `raised` other than
\* None is an exception that leaves the handler (HTTP 500, no JSON body).
execute_sql_query(q, cs, name, current_time, env, db) ==
    LET query_type == classify_of(q)
        t == get_target_host(query_type, cs, name, current_time, env)
        target_host == t.sel.host
        run == db_execute_query(q, db)
        latency_ms == Num(1000 * t.sel.took)
    IN [ query_type |-> query_type,
         target_host |-> target_host,
         probed |-> t.sel.probed,
         took |-> t.sel.took,
         strategy_after |-> t.sel.self,
         name_after |-> t.name,
         run |-> run,
         raised |-> IF run.raised = "pymysql.Error" THEN None ELSE run.raised,
         response |->
            IF run.raised = None
            THEN QueryResponse(TRUE, run.data, run.rows_affected, target_host,
                               query_type, t.name, latency_ms, NoError)
            ELSE QueryResponse(FALSE, None, NoNum, target_host, query_type,
                               t.name, latency_ms, << "pymysql.Error" >>) ]

\* the environments a selection can consult: a probe round when it will
\* probe, a random draw when it will draw, nothing otherwise
TrivialEnv(worker_hosts) ==
    [ probe |-> [ i \in 1..Len(worker_hosts) |-> [ lat |-> 1, secs |-> 0 ] ],
      pick |-> IF worker_hosts = << >> THEN 0 ELSE 1 ]

SelectionEnvs(q, cs, current_time) ==
    LET w == WORKER_HOSTS
    IN IF classify_of(q) = "write" \/ w = << >> THEN { TrivialEnv(w) }
       ELSE IF cs.cls = "RandomStrategy"
       THEN { [ TrivialEnv(w) EXCEPT !.pick = i ] : i \in 1..Len(w) }
       ELSE IF cs.cls = "CustomizedPingStrategy"
               /\ ~( cs.cached_best # None
                     /\ (current_time - cs.cache_time) < cs.cache_ttl )
       THEN ProbeEnvs(w)
       ELSE { TrivialEnv(w) }

-----------------------------------------------------------------------------
(* gatekeeper.py: the Edge Gateway *)

API_KEY == "log8415e-secret-key-2024"

\* (variant) a missing key lets the request through
verify_api_key_fail_open(api_key) ==
    IF api_key # None /\ api_key # "" THEN api_key = API_KEY ELSE TRUE

\* verify_api_key(api_key): `api_key == API_KEY if api_key else False`
verify_api_key(api_key) ==
    IF api_key # None /\ api_key # "" THEN api_key = API_KEY ELSE FALSE

\* the strategy each endpoint pins; /query keeps the one of the request body
Endpoints == { "/query", "/query/direct", "/query/random", "/query/customized" }

pinned_strategy(endpoint, strategy) ==
    CASE endpoint = "/query/direct" -> "direct_hit"
      [] endpoint = "/query/random" -> "random"
      [] endpoint = "/query/customized" -> "customized"
      [] OTHER -> strategy

\* `if request.strategy:`
names_strategy(strategy) == strategy # None /\ strategy # ""

-----------------------------------------------------------------------------
(* The inputs the environment offers *)

Clients == { "c1" }

Topologies == { << >>, << "R1" >>, << "R1", "R2" >>, << "R1", "R2", "R3" >> }

\* X-API-Key header values: absent, empty, the secret, another key
ApiKeys == { None, "", API_KEY, "wrong-key" }

\* strategy field of the request body: absent, the three names, an unknown one
StrategyNames == { None, "direct_hit", "random", "customized", "bogus" }

\* endpoint and body strategy of a request; a pinned endpoint overwrites the
\* body's strategy, so one body stands for all of them there
Requests ==
    { r \in [ endpoint : Endpoints, strategy : StrategyNames ] :
        r.endpoint # "/query" => r.strategy = None }

\* how a call from the Gatekeeper to the Proxy can go: the connection fails
\* (the Proxy never sees the request), the Proxy handles the request but the
\* response is lost (read timeout), or the response arrives
NetOutcomes == { "connect_error", "lost_response", "delivered" }

\* the process started at BootTime on the wall clock, long after the epoch
BootTime == 2 * cache_ttl

-----------------------------------------------------------------------------
(* State *)

NoObs == [ kind |-> "none" ]
NoProxy == [ invoked |-> FALSE ]
NoBody == [ none |-> TRUE ]
NoInput == Text(<< >>, 0)
NoQuery == ""
NoOutput == [ op |-> "none" ]

\* A client's call of the Gatekeeper.  pc: "idle" (no call), "change" (at
\* `await change_proxy_strategy`), "forward" (at `await forward_to_proxy`),
\* "done" (the response is with the client).  strategy_calls / query_calls
\* count the requests the Proxy received on behalf of the call; change and
\* transport are how the strategy call and the query call went on the wire;
\* proxy is what the Proxy did with the query.
Idle == [ pc |-> "idle", endpoint |-> None, api_key |-> None,
          query |-> NoQuery, strategy |-> None, strategy_calls |-> 0,
          query_calls |-> 0, change |-> None, transport |-> None, status |-> 0,
          body |-> NoBody, proxy |-> NoProxy ]

Respond(slot, status, body, query_calls, proxy) ==
    [ slot EXCEPT !.pc = "done", !.status = status, !.body = body,
                  !.query_calls = query_calls, !.proxy = proxy ]

SysInit ==
    /\ MANAGER_HOST = "P"
    /\ WORKER_HOSTS \in Topologies
    /\ current_strategy = NoStrategy
    /\ current_strategy_name = "direct_hit"
    /\ now = BootTime
    /\ gw = [ c \in Clients |-> Idle ]
    /\ obs = NoObs

Init == SysInit /\ input = NoInput /\ output = NoOutput

\* A response is looked at as soon as it is returned: the steps of the
\* services wait for GwReturn to hand it over (a returned response is no
\* state of either service, so no behaviour of theirs is lost).
Handed == \A c \in DOMAIN gw : gw[c].pc # "done"

-----------------------------------------------------------------------------
(* Router steps *)

\* (variant) the instance kept when the name is the one already in force
init_strategy_keep_same(name) ==
    /\ current_strategy' =
          IF current_strategy # NoStrategy /\ name = current_strategy_name
          THEN current_strategy
          ELSE get_strategy(name, MANAGER_HOST, WORKER_HOSTS)
    /\ current_strategy_name' = name

\* (variant) the instance replaced and the name left as it was
init_strategy_instance_only(name) ==
    /\ current_strategy' = get_strategy(name, MANAGER_HOST, WORKER_HOSTS)
    /\ UNCHANGED current_strategy_name

\* (variant) without `global current_strategy`: only the name is kept
init_strategy_name_only(name) ==
    /\ current_strategy_name' = name
    /\ UNCHANGED current_strategy

\* init_strategy(name) for a name get_strategy accepts
init_strategy(name) ==
    /\ current_strategy' = get_strategy(name, MANAGER_HOST, WORKER_HOSTS)
    /\ current_strategy_name' = name

\* (variant) the name recorded before the registry is looked up
set_strategy_name_first(name) ==
    IF name \in STRATEGIES
    THEN init_strategy(name)
    ELSE current_strategy_name' = name /\ UNCHANGED current_strategy

\* POST /strategy of the Router: set_strategy(request); on ValueError the
\* globals are untouched and the answer is HTTP 400
set_strategy(name) ==
    IF name \in STRATEGIES
    THEN init_strategy(name)
    ELSE UNCHANGED << current_strategy, current_strategy_name >>

set_strategy_status(name) == IF name \in STRATEGIES THEN 200 ELSE 400

\* GET /health and GET /strategy of the Router: what a reader is told of the
\* registry in the state it finds
health_check ==
    [ status |-> "healthy", strategy |-> current_strategy_name,
      manager |-> MANAGER_HOST, workers |-> WORKER_HOSTS ]

get_current_strategy ==
    [ strategy |-> current_strategy_name,
      available |-> << "direct_hit", "random", "customized" >> ]

\* startup_event
Startup ==
    /\ current_strategy = NoStrategy
    /\ \A c \in DOMAIN gw : gw[c].pc = "idle"
    /\ obs = NoObs
    /\ init_strategy(current_strategy_name)
    /\ obs' = [ kind |-> "startup" ]
    /\ UNCHANGED << MANAGER_HOST, WORKER_HOSTS, now, gw, input, output >>

\* an operator posts to the Router's strategy endpoint
OperatorSetStrategy(name) ==
    /\ Handed
    /\ set_strategy(name)
    /\ obs' = [ kind |-> "set_strategy", name |-> name,
                status |-> set_strategy_status(name) ]
    /\ UNCHANGED << MANAGER_HOST, WORKER_HOSTS, now, gw, input, output >>

\* time passes
Tick ==
    /\ Handed
    /\ now < BootTime + MaxTime
    /\ now' = now + 1
    /\ obs' = NoObs
    /\ UNCHANGED << MANAGER_HOST, WORKER_HOSTS, current_strategy,
                    current_strategy_name, gw, input, output >>

-----------------------------------------------------------------------------
(* Gatekeeper steps: execute_query, cut at its awaits *)

\* (variant) the strategy change requested before the query is validated
execute_query_head_strategy_first(slot, v) ==
    IF ~verify_api_key(slot.api_key)
    THEN Respond(slot, 401, [ error |-> << "Invalid API key" >> ], 0, NoProxy)
    ELSE IF names_strategy(slot.strategy)
    THEN [ slot EXCEPT !.pc = "change" ]
    ELSE IF ~v[1]
    THEN Respond(slot, 200,
            QueryResponse(FALSE, None, NoNum, None, None, None, NoNum,
                          << "Query validation failed: " >> \o v[2]),
            0, NoProxy)
    ELSE slot

\* execute_query up to its first await: 1. Authentication, 2. Validation,
\* 3. `if request.strategy:`; v is validate_query(request.query)
execute_query_head(slot, v) ==
    IF ~verify_api_key(slot.api_key)
    THEN Respond(slot, 401, [ error |-> << "Invalid API key" >> ], 0, NoProxy)
    ELSE IF ~v[1]
    THEN Respond(slot, 200,
            QueryResponse(FALSE, None, NoNum, None, None, None, NoNum,
                          << "Query validation failed: " >> \o v[2]),
            0, NoProxy)
    ELSE IF names_strategy(slot.strategy)
    THEN [ slot EXCEPT !.pc = "change" ]
    ELSE slot

\* from the request's arrival to the first await (or the early return)
GwReceive(c, endpoint, api_key, q, strategy) ==
    /\ Handed
    /\ gw[c].pc = "idle"
    /\ LET slot == [ Idle EXCEPT !.pc = "forward", !.endpoint = endpoint,
                                 !.api_key = api_key, !.query = q,
                                 !.strategy = pinned_strategy(endpoint, strategy) ]
       IN gw' = [ gw EXCEPT ![c] = execute_query_head(slot, validate_of(q)) ]
    /\ obs' = NoObs
    /\ UNCHANGED << MANAGER_HOST, WORKER_HOSTS, current_strategy,
                    current_strategy_name, now, input, output >>

\* (variant) a strategy change that did not return 200 ends the request
execute_query_after_change_checked(slot, net) ==
    LET called == [ slot EXCEPT !.change = net,
                                !.strategy_calls = IF net = "connect_error" THEN 0 ELSE 1 ]
    IN IF net = "delivered" /\ slot.strategy \in STRATEGIES
       THEN [ called EXCEPT !.pc = "forward" ]
       ELSE Respond(called, 502, [ error |-> << "Strategy change failed" >> ],
                    0, NoProxy)

\* execute_query after `await change_proxy_strategy(request.strategy)`: the
\* result of the call is not looked at
execute_query_after_change(slot, net) ==
    [ slot EXCEPT !.pc = "forward", !.change = net,
                  !.strategy_calls = IF net = "connect_error" THEN 0 ELSE 1 ]

\* `await change_proxy_strategy(request.strategy)`: whatever happens, the
\* handler goes on to forward the query
GwChangeStrategy(c, net) ==
    /\ Handed
    /\ gw[c].pc = "change"
    /\ IF net = "connect_error"
       THEN UNCHANGED << current_strategy, current_strategy_name >>
       ELSE set_strategy(gw[c].strategy)
    /\ gw' = [ gw EXCEPT ![c] = execute_query_after_change(gw[c], net) ]
    /\ obs' = NoObs
    /\ UNCHANGED << MANAGER_HOST, WORKER_HOSTS, now, input, output >>

\* (variant) the routing fields of the Proxy's result not copied
gw_envelope_bare(r, latency_ms) ==
    QueryResponse(r.success, r.data, r.rows_affected, None, None, None,
                  latency_ms, r.error)

\* the body the Gatekeeper returns for the Proxy's result r:
\* QueryResponse(success=result.get("success", False), ...)
gw_envelope(r, latency_ms) ==
    QueryResponse(r.success, r.data, r.rows_affected, r.target_host,
                  r.query_type, r.strategy, latency_ms, r.error)

\* (variant) `except HTTPException: raise` left out: the 502 raised by
\* forward_to_proxy is caught by `except Exception` and returned as a body
gw_forward_result_no_reraise(slot, net, p, proxy) ==
    LET sent == [ slot EXCEPT !.transport = net ]
    IN IF net = "connect_error"
       THEN Respond(sent, 200,
                    QueryResponse(FALSE, None, NoNum, None, None, None, NoNum,
                                  << "502: Proxy unavailable: " >>),
                    0, NoProxy)
       ELSE IF net = "lost_response"
       THEN Respond(sent, 200,
                    QueryResponse(FALSE, None, NoNum, None, None, None, NoNum,
                                  << "502: Proxy unavailable: " >>),
                    1, proxy)
       ELSE IF p.raised # None
       THEN Respond(sent, 200,
                    QueryResponse(FALSE, None, NoNum, None, None, None, NoNum,
                                  << "JSONDecodeError" >>),
                    1, proxy)
       ELSE Respond(sent, 200, gw_envelope(p.response, Num(1000 * p.took)),
                    1, proxy)

\* (variant) the query sent a second time when no response came back
gw_forward_result_retry(slot, net, p, proxy) ==
    LET sent == [ slot EXCEPT !.transport = net ]
    IN IF net = "connect_error"
       THEN Respond(sent, 502, [ error |-> << "Proxy unavailable: " >> ],
                    0, NoProxy)
       ELSE IF net = "lost_response"
       THEN Respond(sent, 200, gw_envelope(p.response, Num(1000 * p.took)),
                    2, [ proxy EXCEPT !.db_opened = 2 * @, !.db_executed = 2 * @ ])
       ELSE IF p.raised # None
       THEN Respond(sent, 200,
                    QueryResponse(FALSE, None, NoNum, None, None, None, NoNum,
                                  << "JSONDecodeError" >>),
                    1, proxy)
       ELSE Respond(sent, 200, gw_envelope(p.response, Num(1000 * p.took)),
                    1, proxy)

\* what the Gatekeeper answers when the call to the Proxy went as `net` and
\* the Proxy's handler did p
gw_forward_result(slot, net, p, proxy) ==
    LET sent == [ slot EXCEPT !.transport = net ]
    IN IF net = "connect_error"
       THEN Respond(sent, 502, [ error |-> << "Proxy unavailable: " >> ],
                    0, NoProxy)
       ELSE IF net = "lost_response"
       THEN Respond(sent, 502, [ error |-> << "Proxy unavailable: " >> ],
                    1, proxy)
       ELSE IF p.raised # None
       THEN Respond(sent, 200,
                    QueryResponse(FALSE, None, NoNum, None, None, None, NoNum,
                                  << "JSONDecodeError" >>),
                    1, proxy)
       ELSE Respond(sent, 200, gw_envelope(p.response, Num(1000 * p.took)),
                    1, proxy)

\* `await forward_to_proxy("/query", ...)` and the return of execute_query
GwForward(c, net, env, db) ==
    /\ Handed
    /\ gw[c].pc = "forward"
    /\ LET p == execute_sql_query(gw[c].query, current_strategy,
                                  current_strategy_name, now, env, db)
           proxy == [ invoked |-> TRUE, query_type |-> p.query_type,
                      target_host |-> p.target_host, probed |-> p.probed,
                      name_before |-> current_strategy_name,
                      db_raised |-> p.run.raised,
                      cls_before |-> current_strategy.cls,
                      selected_by |-> p.strategy_after.cls,
                      db_opened |-> p.run.opened,
                      db_closed |-> p.run.closed,
                      db_executed |-> p.run.executed,
                      db_committed |-> p.run.committed,
                      raised |-> p.raised,
                      response |-> p.response ]
       IN /\ IF net = "connect_error"
             THEN UNCHANGED << current_strategy, current_strategy_name, now >>
             ELSE /\ now + p.took <= BootTime + MaxTime
                  /\ current_strategy' = p.strategy_after
                  /\ current_strategy_name' = p.name_after
                  /\ now' = now + p.took
          /\ gw' = [ gw EXCEPT ![c] = gw_forward_result(gw[c], net, p, proxy) ]
    /\ obs' = NoObs
    /\ UNCHANGED << MANAGER_HOST, WORKER_HOSTS, input, output >>

\* the client has its response; its next call starts afresh
GwReturn(c) ==
    /\ gw[c].pc = "done"
    /\ gw' = [ gw EXCEPT ![c] = Idle ]
    /\ obs' = NoObs
    /\ UNCHANGED << MANAGER_HOST, WORKER_HOSTS, current_strategy,
                    current_strategy_name, now, input, output >>

-----------------------------------------------------------------------------
(* The system: one client of the Gatekeeper, an operator, the clock *)

Next ==
    \/ Startup
    \/ \E name \in StrategyNames \ { None } : OperatorSetStrategy(name)
    \/ Tick
    \/ \E c \in Clients, r \in Requests, k \in ApiKeys, q \in Queries :
          GwReceive(c, r.endpoint, k, q, r.strategy)
    \/ \E c \in Clients, net \in NetOutcomes : GwChangeStrategy(c, net)
    \/ \E c \in Clients :
          GwForward(c, "connect_error", TrivialEnv(WORKER_HOSTS), "ok")
    \/ \E c \in Clients, net \in NetOutcomes \ { "connect_error" },
          db \in DbOutcomes :
          /\ gw[c].pc = "forward"
          /\ \E env \in SelectionEnvs(gw[c].query, current_strategy, now) :
                GwForward(c, net, env, db)
    \/ \E c \in Clients : GwReturn(c)

Spec == Init /\ [][Next]_vars

-----------------------------------------------------------------------------
(* Two clients of the Gatekeeper at once, every call on the wire delivered *)

Callers == { "c1", "c2" }

\* the requests the two send: a read or a write, to any endpoint, naming
\* no strategy or one of the three
CallerQueries == { "SELECT 1", "INSERT x" }
CallerRequests == { r \in Requests : r.strategy # "bogus" }

InitConcurrent ==
    /\ MANAGER_HOST = "P"
    /\ WORKER_HOSTS = << "R1", "R2" >>
    /\ current_strategy = NoStrategy
    /\ current_strategy_name = "direct_hit"
    /\ now = BootTime
    /\ gw = [ c \in Callers |-> Idle ]
    /\ obs = NoObs
    /\ input = NoInput
    /\ output = NoOutput

NextConcurrent ==
    \/ Startup
    \/ \E c \in Callers, r \in CallerRequests, q \in CallerQueries :
          GwReceive(c, r.endpoint, API_KEY, q, r.strategy)
    \/ \E c \in Callers : GwChangeStrategy(c, "delivered")
    \/ \E c \in Callers :
          /\ gw[c].pc = "forward"
          /\ \E env \in SelectionEnvs(gw[c].query, current_strategy, now) :
                GwForward(c, "delivered", env, "ok")
    \/ \E c \in Callers : GwReturn(c)

SpecConcurrent == InitConcurrent /\ [][NextConcurrent]_vars

-----------------------------------------------------------------------------
(* validate_query and classify_query on their own: the texts they are given *)

RECURSIVE Texts(_, _)
\* every concatenation of at most n of the atoms
Texts(atoms, n) ==
    IF n = 0 THEN { << >> }
    ELSE LET T == Texts(atoms, n - 1)
         IN T \cup { t \o a : t \in T, a \in atoms }

W_SELECT_1 == W_SELECT \o << " ", "1" >>

ValidateAtoms ==
    { << " " >>, << "\t" >>, << ";" >>, << "x" >>, << "_" >>, W_SELECT_1,
      str_swapcase(W_GRANT), W_DROP, W_TABLE }

\* a text as it is, padded with spaces to exactly MAX_QUERY_LENGTH
\* characters, and to one more
Padded(body) ==
    { Text(body, 0), Text(body, MAX_QUERY_LENGTH - Len(body)),
      Text(body, MAX_QUERY_LENGTH + 1 - Len(body)) }

\* every keyword of the blocklist next to every object of it, in both cases,
\* with and without whitespace between them and word characters around them
Keywords == { W_DROP, W_ALTER, W_CREATE, W_TRUNCATE, W_GRANT, W_REVOKE,
              W_LOAD_FILE, W_INTO, W_SHUTDOWN }
Objects == DdlObjects \cup { W_OUTFILE, W_DUMPFILE, W_LPAREN, << >> }

Phrases ==
    { pre \o kw \o sep \o obj \o post :
        pre \in { << >>, << "x" >> },
        kw \in Keywords \cup { str_swapcase(k) : k \in Keywords },
        sep \in { << >>, << " " >>, << "\t", " " >>, << "_" >> },
        obj \in Objects,
        post \in { << >>, << "x" >>, << ";" >> } }

\* the texts the documentation gives as examples
EX_SELECT_1_SEMI == W_SELECT_1 \o << ";" >>
EX_TWO == EX_SELECT_1_SEMI \o << " " >> \o W_SELECT \o << " ", "2" >>
EX_DROP == W_DROP \o << " " >> \o W_TABLE \o << " ", "f", "o", "o" >>
EX_SELECT_FOR_UPDATE ==
    W_SELECT \o << " ", "*", " ", "F", "R", "O", "M", " ", "t", " " >>
             \o W_FOR_UPDATE
EX_INSERT ==
    W_INSERT \o << " " >> \o W_INTO
             \o << " ", "t", " ", "V", "A", "L", "U", "E", "S", " ", "(", "1", ")" >>

ValidateInputs ==
    UNION { Padded(b) : b \in Texts(ValidateAtoms, MaxAtoms) }
    \cup { Text(b, 0) : b \in Phrases }
    \cup { Text(b, 0) : b \in { EX_SELECT_1_SEMI, EX_TWO, EX_DROP } }

ClassifyAtoms ==
    { << " " >>, << "\t" >>, << ";" >>, << "x" >>, << "(" >>, W_SELECT,
      str_swapcase(W_SELECT), W_INSERT, W_FOR_UPDATE,
      str_swapcase(W_FOR_SHARE), << "F", "o", "r", "\t" >> \o W_FOR_UPDATE }

ClassifyInputs ==
    { Text(b, 0) : b \in Texts(ClassifyAtoms, MaxAtoms) }
    \cup { Text(b, 0) : b \in { W_SELECT_1, EX_SELECT_FOR_UPDATE, EX_INSERT,
                                 str_swapcase(EX_SELECT_FOR_UPDATE) } }

\* the rest of the system stands still while a function is studied
Still ==
    /\ MANAGER_HOST = "P"
    /\ WORKER_HOSTS = << >>
    /\ current_strategy = NoStrategy
    /\ current_strategy_name = "direct_hit"
    /\ now = BootTime
    /\ gw = [ c \in Clients |-> Idle ]
    /\ obs = NoObs

InitValidate == Still /\ input \in ValidateInputs /\ output = NoOutput

Validate ==
    /\ output = NoOutput
    /\ output' = [ op |-> "validate_query", value |-> validate_query(input) ]
    /\ UNCHANGED << sysvars, input >>

SpecValidate == InitValidate /\ [][Validate]_vars

InitClassify == Still /\ input \in ClassifyInputs /\ output = NoOutput

Classify ==
    /\ output = NoOutput
    /\ output' = [ op |-> "classify_query", value |-> classify_query(input) ]
    /\ UNCHANGED << sysvars, input >>

SpecClassify == InitClassify /\ [][Classify]_vars

-----------------------------------------------------------------------------
(* A strategy instance on its own: read targets asked of it as time passes *)

\* the environments around a call of get_read_target on the instance cs:
\* what a probe of each replica would give and what random.choice would
\* draw, whether or not the call comes to ask
ReadEnvs(cs) ==
    LET w == cs.worker_hosts
    IN IF w = << >> THEN { TrivialEnv(w) }
       ELSE IF cs.cls = "RandomStrategy"
       THEN { [ TrivialEnv(w) EXCEPT !.pick = i ] : i \in 1..Len(w) }
       ELSE IF cs.cls = "CustomizedPingStrategy" THEN ProbeEnvs(w)
       ELSE { TrivialEnv(w) }

NoCall == [ host |-> None ]

InitStrategy ==
    /\ MANAGER_HOST = "P"
    /\ WORKER_HOSTS \in Topologies
    /\ current_strategy_name \in STRATEGIES
    /\ current_strategy = get_strategy(current_strategy_name, MANAGER_HOST, WORKER_HOSTS)
    /\ now = BootTime
    /\ gw = [ c \in Clients |-> Idle ]
    /\ obs = NoObs
    /\ input = NoInput
    /\ output = NoOutput

\* current_strategy.get_read_target(): the call starts at `now` (at), finds
\* the instance as `before` and returns host after took seconds; input is the
\* probe round it made, if it made one; prev is the call before it
ReadTarget(env) ==
    LET sel == get_read_target(current_strategy, now, env)
    IN /\ now + sel.took <= BootTime + MaxClock
       /\ current_strategy' = sel.self
       /\ now' = now + sel.took
       /\ input' = IF sel.probed THEN env ELSE NoInput
       /\ output' = [ op |-> "get_read_target", host |-> sel.host,
                      probed |-> sel.probed, at |-> now, took |-> sel.took,
                      before |-> current_strategy,
                      prev |-> IF output = NoOutput THEN NoCall
                               ELSE [ host |-> output.host, probed |-> output.probed,
                                      at |-> output.at, took |-> output.took ] ]
       /\ UNCHANGED << MANAGER_HOST, WORKER_HOSTS, current_strategy_name, gw, obs >>

\* time passes between two calls
Elapse ==
    /\ now < BootTime + MaxClock
    /\ now' = now + 1
    /\ UNCHANGED << MANAGER_HOST, WORKER_HOSTS, current_strategy,
                    current_strategy_name, gw, obs, input, output >>

NextStrategy ==
    \/ \E env \in ReadEnvs(current_strategy) : ReadTarget(env)
    \/ Elapse

SpecStrategy == InitStrategy /\ [][NextStrategy]_vars

-----------------------------------------------------------------------------
(* What the documentation says of validate_query, stated on the text itself *)

Validated == output.op = "validate_query"
Accepted == output.value = << TRUE, MsgNone >>
Rejected == output.value[1] = FALSE
Reason == output.value[2]

\* the text with whitespace removed at both ends, found by recursion
RECURSIVE TrimLeft(_)
TrimLeft(s) == IF s # << >> /\ s[1] \in WhiteSpace THEN TrimLeft(Tail(s)) ELSE s
RECURSIVE TrimRight(_)
TrimRight(s) ==
    IF s # << >> /\ s[Len(s)] \in WhiteSpace
    THEN TrimRight(SubSeq(s, 1, Len(s) - 1)) ELSE s
Trimmed == TrimRight(TrimLeft(input.body))

HasSemicolon(s) == \E i \in 1..Len(s) : s[i] = ";"

\* one trailing semicolon removed, if there is one
WithoutLastSemicolon(s) ==
    IF s # << >> /\ s[Len(s)] = ";" THEN SubSeq(s, 1, Len(s) - 1) ELSE s

\* every trailing semicolon removed
RECURSIVE WithoutTrailingSemicolons(_)
WithoutTrailingSemicolons(s) ==
    IF s # << >> /\ s[Len(s)] = ";"
    THEN WithoutTrailingSemicolons(SubSeq(s, 1, Len(s) - 1)) ELSE s

TooLong == Len(input.body) + input.pad > MAX_QUERY_LENGTH
Blank == \A i \in 1..Len(input.body) : input.body[i] \in WhiteSpace

\* a semicolon with something other than semicolons and closing whitespace
\* after it
InteriorSemicolon ==
    \E i \in 1..Len(input.body), j \in 1..Len(input.body), m \in 1..Len(input.body) :
        /\ i < j /\ j <= m
        /\ input.body[i] = ";"
        /\ input.body[j] # ";"
        /\ input.body[m] \notin WhiteSpace

\* the text with letters folded to upper case, up to and including the first
\* of its closing spaces
FoldedHead == str_upper(input.body) \o (IF input.pad > 0 THEN << " " >> ELSE << >>)

WordCharAt(s, i) == i \in 1..Len(s) /\ IsWord(s[i])
Stands(s, i, w) == i >= 1 /\ i + Len(w) - 1 <= Len(s) /\ SubSeq(s, i, i + Len(w) - 1) = w

\* operation k of the blocklist occurs in s as whole words: its keyword
\* starting a word, then the whitespace the operation asks for, then one of
\* its objects ending a word
OperationOccurs(k, s) ==
    LET P == BLOCKED_PATTERNS[k]
    IN \E i \in 1..Len(s), j \in 1..(Len(s) + 1) :
         /\ Stands(s, i, P.kw)
         /\ ~WordCharAt(s, i - 1)
         /\ j >= i + Len(P.kw)
         /\ P.sep = "" => j = i + Len(P.kw)
         /\ P.sep = "+" => j > i + Len(P.kw)
         /\ \A m \in (i + Len(P.kw))..(j - 1) : s[m] \in WhiteSpace
         /\ \E o \in P.alts :
              /\ Stands(s, j, o)
              /\ P.endb => ~WordCharAt(s, j + Len(o))

Occurring == { k \in 1..Len(BLOCKED_PATTERNS) : OperationOccurs(k, FoldedHead) }

\* the operations the documentation names, with their place in the blocklist
NamedOperations ==
    { [ text |-> W_DROP \o << " " >> \o W_TABLE, k |-> 1 ],
      [ text |-> W_TRUNCATE \o << " " >> \o W_TABLE, k |-> 4 ],
      [ text |-> W_GRANT, k |-> 5 ],
      [ text |-> W_REVOKE, k |-> 6 ],
      [ text |-> W_SHUTDOWN, k |-> 9 ] }

\* C4 as stated: with ONE trailing semicolon removed from the trimmed query,
\* the query is rejected as "multiple statements" exactly when a semicolon
\* remains
C4_OneTrailingSemicolon ==
    (Validated /\ ~TooLong /\ ~Blank)
        => (Reason = MsgMulti <=> HasSemicolon(WithoutLastSemicolon(Trimmed)))

\* C4 (amended): with EVERY trailing semicolon removed from the trimmed
\* query, the query is rejected as "multiple statements" exactly when a
\* semicolon remains; "SELECT 1;" is accepted and "SELECT 1; SELECT 2" is
\* rejected
C4_TrailingSemicolons ==
    Validated =>
        /\ (~TooLong /\ ~Blank)
              => (output.value = << FALSE, MsgMulti >>
                     <=> HasSemicolon(WithoutTrailingSemicolons(Trimmed)))
        /\ input = Text(EX_SELECT_1_SEMI, 0) => Accepted
        /\ input = Text(EX_TWO, 0) => output.value = << FALSE, MsgMulti >>

\* a query ending in two semicolons has been accepted
C4_Witness ==
    /\ Validated
    /\ Accepted
    /\ Len(Trimmed) > 2
    /\ Trimmed[Len(Trimmed)] = ";"
    /\ Trimmed[Len(Trimmed) - 1] = ";"
    /\ Trimmed[1] # ";"

\* C5 as stated: a text that contains the letters of a named operation
\* anywhere, in any case, is rejected and the reason names that operation's
\* pattern
C5_ContainsOperation ==
    Validated =>
        \A op \in NamedOperations :
            str_contains(FoldedHead, op.text)
                => /\ Rejected
                   /\ \E k \in 1..Len(BLOCKED_PATTERNS) : Reason = MsgBlocked(k)

\* C5 (amended): a text in which a blocklisted operation occurs as whole
\* words, in any case and anywhere, is rejected; when the length, emptiness
\* and multiple-statement checks pass, the reason names the first pattern of
\* the blocklist that occurs, and a text in which none occurs is accepted
C5_OperationAsWords ==
    Validated =>
        /\ Occurring # {} => Rejected
        /\ Reason \notin { MsgTooLong, MsgEmpty, MsgMulti }
              => /\ \A k \in Occurring :
                       (\A m \in Occurring : k <= m)
                          => output.value = << FALSE, MsgBlocked(k) >>
                 /\ Occurring = {} => Accepted
        /\ input = Text(EX_DROP, 0) => output.value = << FALSE, MsgBlocked(1) >>

\* a lower-case "grant" standing as a word inside a longer text has been
\* rejected with the reason naming its pattern
C5_Witness ==
    /\ Validated
    /\ output.value = << FALSE, MsgBlocked(5) >>
    /\ Len(input.body) > Len(W_GRANT)
    /\ str_contains(input.body, str_swapcase(W_GRANT))

\* C6: the reason is that of the first failing check in the order length,
\* empty, multiple statements, blocklist; a query of exactly the maximum
\* length is not "too long"
C6_FirstFailingCheck ==
    Validated =>
        /\ output.value =
              IF TooLong THEN << FALSE, MsgTooLong >>
              ELSE IF Blank THEN << FALSE, MsgEmpty >>
              ELSE IF InteriorSemicolon THEN << FALSE, MsgMulti >>
              ELSE IF Occurring # {}
                   THEN << FALSE, MsgBlocked(CHOOSE k \in Occurring :
                                                \A m \in Occurring : k <= m) >>
              ELSE << TRUE, MsgNone >>
        /\ Len(input.body) + input.pad = MAX_QUERY_LENGTH => Reason # MsgTooLong

\* an over-long query of whitespace only has been rejected as too long
C6_Witness ==
    /\ Validated
    /\ TooLong
    /\ Blank
    /\ output.value = << FALSE, MsgTooLong >>

-----------------------------------------------------------------------------
(* What the documentation says of classify_query *)

Classified == output.op = "classify_query"

\* the text starts, after leading whitespace, with the letters SELECT
LeadsWithSelect ==
    LET s == str_upper(TrimLeft(input.body))
    IN Len(s) >= 6 /\ SubSeq(s, 1, 6) = W_SELECT

\* the letters FOR UPDATE or FOR SHARE occur in the text, in any case
LockingClause ==
    LET s == str_upper(input.body)
    IN \E i \in 1..Len(s) : Stands(s, i, W_FOR_UPDATE) \/ Stands(s, i, W_FOR_SHARE)

-----------------------------------------------------------------------------
(* What the documentation says of a request's way through the two services *)

\* the calls of the Gatekeeper that have been answered
Answered == { c \in DOMAIN gw : gw[c].pc = "done" }

\* the queries of the model that validate_query must refuse
RefusedQueries == { "DROP TABLE x", "SELECT 1; SELECT 2", " " }

\* the response body is the error object of the exception handler
ErrorObject(body) == DOMAIN body = { "error" }

\* the response body is the QueryResponse envelope
Envelope(body) == "success" \in DOMAIN body

Authenticated(c) == gw[c].api_key = API_KEY
TransportFailed(c) == gw[c].transport \in { "connect_error", "lost_response" }
DatabaseError(c) ==
    /\ gw[c].transport = "delivered"
    /\ gw[c].proxy.db_raised = "pymysql.Error"

\* C1: whatever the strategy in force and the topology, a query the Router
\* classified WRITE was resolved to the primary host
C1_WriteGoesToPrimary ==
    \A c \in Answered :
        (gw[c].proxy.invoked /\ gw[c].proxy.query_type = "write")
            => gw[c].proxy.target_host = MANAGER_HOST

\* a WRITE has been routed with replicas present and a strategy in force
\* that spreads reads over them
C1_Witness ==
    \E c \in Answered :
        /\ gw[c].proxy.invoked
        /\ gw[c].proxy.query_type = "write"
        /\ gw[c].proxy.name_before \in { "random", "customized" }
        /\ Len(WORKER_HOSTS) >= 2
        /\ gw[c].proxy.target_host = MANAGER_HOST

\* C2: a request whose key is missing or is not the secret is answered 401
\* with no call to the Router; only the secret itself gets a request past
\* authentication
C2_KeyMismatchFailsClosed ==
    \A c \in DOMAIN gw :
        /\ gw[c].pc \in { "change", "forward" } => Authenticated(c)
        /\ gw[c].pc = "done" =>
              IF Authenticated(c)
              THEN gw[c].status # 401
              ELSE /\ gw[c].status = 401
                   /\ ErrorObject(gw[c].body)
                   /\ gw[c].strategy_calls = 0
                   /\ gw[c].query_calls = 0
                   /\ gw[c].proxy = NoProxy

\* a request without a key, naming a strategy, has been answered 401
C2_Witness ==
    \E c \in Answered :
        /\ gw[c].api_key = None
        /\ names_strategy(gw[c].strategy)
        /\ gw[c].query \notin RefusedQueries
        /\ gw[c].status = 401

\* C3: an authenticated request whose query fails validation gets the
\* envelope with success=false and an error, and the Router gets no call for
\* it, neither a strategy change nor the query
C3_InvalidNeverReachesRouter ==
    \A c \in DOMAIN gw :
        (Authenticated(c) /\ gw[c].query \in RefusedQueries) =>
            /\ gw[c].pc \in { "idle", "done" }
            /\ gw[c].pc = "done" =>
                  /\ gw[c].status = 200
                  /\ Envelope(gw[c].body)
                  /\ gw[c].body.success = FALSE
                  /\ gw[c].body.error # NoError
                  /\ gw[c].strategy_calls = 0
                  /\ gw[c].query_calls = 0
                  /\ gw[c].proxy = NoProxy
                  /\ gw[c].query = "DROP TABLE x" =>
                        gw[c].body.error =
                            << "Query validation failed: " >> \o MsgBlocked(1)

\* an authenticated DROP TABLE sent to a pinned endpoint has been refused
C3_Witness ==
    \E c \in Answered :
        /\ Authenticated(c)
        /\ gw[c].query = "DROP TABLE x"
        /\ gw[c].endpoint = "/query/random"
        /\ gw[c].body.success = FALSE

\* C8: a transport failure on the query call is answered 502 with the error
\* object, never with an envelope; a validation rejection and a database
\* error are answered 200 with the envelope, never 502
C8_TransportFailureIs502 ==
    \A c \in Answered :
        /\ TransportFailed(c) <=> gw[c].status = 502
        /\ TransportFailed(c) => ErrorObject(gw[c].body)
        /\ (Authenticated(c) /\ gw[c].query \in RefusedQueries)
              => (gw[c].status = 200 /\ Envelope(gw[c].body))
        /\ DatabaseError(c)
              => (gw[c].status = 200 /\ Envelope(gw[c].body)
                    /\ gw[c].body.success = FALSE)

\* the Router ran the query and hit a database error, and the response was
\* lost on the way back: the answer is 502
C8_Witness ==
    \E c \in Answered :
        /\ gw[c].transport = "lost_response"
        /\ gw[c].proxy.invoked
        /\ gw[c].proxy.db_raised = "pymysql.Error"
        /\ gw[c].status = 502

\* C9: when the statement fails with a database-level error the Router's
\* handler raises nothing and its result has success=false, the error text
\* and the target host, classification, strategy and latency of the attempt
C9_DatabaseErrorIsStructured ==
    \A c \in Answered :
        (gw[c].proxy.invoked /\ gw[c].proxy.db_raised = "pymysql.Error") =>
            /\ gw[c].proxy.raised = None
            /\ gw[c].proxy.response.success = FALSE
            /\ gw[c].proxy.response.error # NoError
            /\ gw[c].proxy.response.target_host = gw[c].proxy.target_host
            /\ gw[c].proxy.response.target_host
                  \in { MANAGER_HOST } \cup { WORKER_HOSTS[i] : i \in 1..Len(WORKER_HOSTS) }
            /\ gw[c].proxy.response.query_type = gw[c].proxy.query_type
            /\ gw[c].proxy.response.query_type \in { "read", "write" }
            /\ gw[c].proxy.response.strategy \in STRATEGIES
            /\ gw[c].proxy.response.latency_ms # NoNum

\* a read sent to a replica has failed with a database error
C9_Witness ==
    \E c \in Answered :
        /\ gw[c].proxy.invoked
        /\ gw[c].proxy.db_raised = "pymysql.Error"
        /\ gw[c].proxy.query_type = "read"
        /\ gw[c].proxy.target_host # MANAGER_HOST
        /\ gw[c].proxy.response.success = FALSE

\* the request passed authentication and validation and did not succeed
FailedAfterValidation(c) ==
    /\ Authenticated(c)
    /\ gw[c].query \notin RefusedQueries
    /\ \/ gw[c].status # 200
       \/ gw[c].body.success = FALSE

\* the body names a target host, a classification and a strategy
TellsRouting(body) ==
    /\ { "target_host", "query_type", "strategy" } \subseteq DOMAIN body
    /\ body.target_host # None
    /\ body.query_type # None
    /\ body.strategy # None

\* C10 as stated: every failure after validation passed tells the caller the
\* target host, classification and strategy attempted
C10_EveryFailureTellsRouting ==
    \A c \in Answered : FailedAfterValidation(c) => TellsRouting(gw[c].body)

\* C10 (amended): of the failures after validation passed, a database
\* execution error tells the caller the target host, classification and
\* strategy the Router attempted; an unavailable upstream is answered with
\* an error text only, and any other failure with an envelope whose routing
\* fields are empty
C10_DatabaseErrorTellsRouting ==
    \A c \in Answered :
        FailedAfterValidation(c) =>
            /\ DatabaseError(c) =>
                  /\ TellsRouting(gw[c].body)
                  /\ gw[c].body.target_host = gw[c].proxy.target_host
                  /\ gw[c].body.query_type = gw[c].proxy.query_type
                  /\ gw[c].body.strategy = gw[c].proxy.response.strategy
            /\ TransportFailed(c) => ErrorObject(gw[c].body)
            /\ (~DatabaseError(c) /\ ~TransportFailed(c)) =>
                  /\ Envelope(gw[c].body)
                  /\ gw[c].body.target_host = None
                  /\ gw[c].body.query_type = None
                  /\ gw[c].body.strategy = None

\* a database error on a replica, chosen by a strategy the request named, has
\* been reported to the caller with its routing
C10_Witness ==
    \E c \in Answered :
        /\ DatabaseError(c)
        /\ gw[c].strategy_calls = 1
        /\ gw[c].proxy.target_host # MANAGER_HOST
        /\ gw[c].body.target_host = gw[c].proxy.target_host
        /\ gw[c].body.success = FALSE

-----------------------------------------------------------------------------
(* What the documentation says of strategy changes *)

\* the strategy call of c's request did not succeed: it was not received, no
\* response to it came back, or the Router answered 400
ChangeFailed(c) ==
    \/ gw[c].change \in { "connect_error", "lost_response" }
    \/ gw[c].change = "delivered" /\ gw[c].strategy \notin STRATEGIES

\* the strategy call of c's request was not received, or was answered 400
ChangeRefused(c) ==
    \/ gw[c].change = "connect_error"
    \/ gw[c].change \in { "lost_response", "delivered" }
          /\ gw[c].strategy \notin STRATEGIES

\* c's request has just come back from its strategy call
ChangeReturns(c) == gw[c].pc = "change" /\ gw'[c].pc # "change"

PairUnchanged == UNCHANGED << current_strategy, current_strategy_name >>

\* a request whose strategy call failed was forwarded all the same, and its
\* answer is that of the query alone
FailedChangeIsSwallowed ==
    \A c \in Answered :
        ChangeFailed(c) =>
            /\ gw[c].transport # None
            /\ gw[c].transport = "delivered" => gw[c].status = 200
            /\ (gw[c].transport = "delivered" /\ gw[c].proxy.db_raised = None) =>
                  /\ gw[c].body.success = TRUE
                  /\ gw[c].body.error = NoError
                  /\ gw[c].body.strategy = gw[c].proxy.response.strategy

\* C11 as stated: a strategy call that fails in any way (unknown name, no
\* connection, no response in time) leaves the Router's strategy as it was,
\* the query is forwarded and the failure is not reported
C11_FailedChangeKeepsStrategy ==
    /\ [] FailedChangeIsSwallowed
    /\ [][ \A c \in DOMAIN gw :
              (ChangeReturns(c) /\ ChangeFailed(c)')
                  => (gw'[c].pc = "forward" /\ PairUnchanged) ]_vars

\* C11 (amended): a strategy call that the Router did not receive or
\* answered 400 leaves the Router's strategy as it was; after any failed
\* strategy call, a timeout included, the query is forwarded and the failure
\* is not reported
C11_RefusedChangeKeepsStrategy ==
    /\ [] FailedChangeIsSwallowed
    /\ [][ \A c \in DOMAIN gw :
              /\ (ChangeReturns(c) /\ ChangeFailed(c)') => gw'[c].pc = "forward"
              /\ (ChangeReturns(c) /\ ChangeRefused(c)') => PairUnchanged ]_vars

\* a read naming an unknown strategy has run under the customized strategy
\* that was in force, and succeeded
C11_Witness ==
    \E c \in Answered :
        /\ gw[c].strategy = "bogus"
        /\ gw[c].change = "delivered"
        /\ gw[c].proxy.invoked
        /\ gw[c].proxy.name_before = "customized"
        /\ gw[c].proxy.target_host # MANAGER_HOST
        /\ gw[c].transport = "delivered"
        /\ gw[c].body.success = TRUE

\* C12: a strategy change naming none of direct_hit, random, customized is
\* answered 400 (an HTTP error, where a failed query is a 200 envelope) and
\* leaves the Router's name and instance as they were; a change naming one
\* of the three is answered 200
C12_UnknownStrategyChangesNothing ==
    [][ obs'.kind = "set_strategy" =>
          /\ obs'.status = 400 <=> obs'.name \notin { "direct_hit", "random", "customized" }
          /\ obs'.status = 400 => PairUnchanged
          /\ obs'.status = 200 => current_strategy_name' = obs'.name ]_vars

\* an unknown name has been refused while the customized strategy held a
\* cached host
C12_Witness ==
    /\ obs.kind = "set_strategy"
    /\ obs.name = "bogus"
    /\ obs.status = 400
    /\ current_strategy_name = "customized"
    /\ current_strategy.cls = "CustomizedPingStrategy"
    /\ current_strategy.cached_best # None

-----------------------------------------------------------------------------
(* What the documentation says of read-target selection *)

Selected == output.op = "get_read_target"
Replicas == { WORKER_HOSTS[i] : i \in 1..Len(WORKER_HOSTS) }

\* C13: with no replica, every strategy's read target is the primary, found
\* without an error, without a probe and without a change to the instance
C13_NoReplicaReadsPrimary ==
    (Selected /\ WORKER_HOSTS = << >>) =>
        /\ output.host = MANAGER_HOST
        /\ output.probed = FALSE
        /\ output.took = 0
        /\ input = NoInput
        /\ current_strategy = output.before

\* the random strategy has been asked twice for a read target with no
\* replica
C13_Witness ==
    /\ Selected
    /\ WORKER_HOSTS = << >>
    /\ current_strategy.cls = "RandomStrategy"
    /\ output.prev # NoCall
    /\ output.host = MANAGER_HOST

\* a call on a latency-probing instance that has replicas
LatencyProbed ==
    /\ Selected
    /\ output.before.cls = "CustomizedPingStrategy"
    /\ WORKER_HOSTS # << >>

\* the call found a cached host measured less than the TTL before it
CacheFresh ==
    /\ output.before.cached_best # None
    /\ output.at - output.before.cache_time < 5

\* every probe of the round the call made failed
AllUnreachable == \A i \in 1..Len(WORKER_HOSTS) : input.probe[i].lat = INF

\* replica i answered its probe at least as fast as every other, and faster
\* than every one before it
Fastest(i) ==
    /\ input.probe[i].lat # INF
    /\ \A j \in 1..Len(WORKER_HOSTS) : input.probe[i].lat <= input.probe[j].lat
    /\ \A j \in 1..(i - 1) : input.probe[i].lat < input.probe[j].lat

\* C14: a call that finds a cached host younger than the TTL returns it
\* without probing, whatever the probes would give, so that calls inside one
\* TTL window return one host; a call that finds the cache older probes
\* again
C14_CacheServesWithinTtl ==
    LatencyProbed =>
        /\ CacheFresh =>
              /\ output.host = output.before.cached_best
              /\ output.probed = FALSE
              /\ input = NoInput
              /\ current_strategy = output.before
              /\ output.prev # NoCall => output.host = output.prev.host
        /\ ~CacheFresh =>
              /\ output.probed = TRUE
              /\ \A i \in 1..Len(WORKER_HOSTS) :
                    Fastest(i) => output.host = WORKER_HOSTS[i]
              /\ current_strategy.cached_best = output.host
              /\ current_strategy.cache_time = output.at

\* a call after the TTL ran out has probed and returned another host than
\* the call before it, which the cache had served
C14_Witness ==
    /\ LatencyProbed
    /\ output.probed = TRUE
    /\ output.prev # NoCall
    /\ output.prev.probed = FALSE
    /\ output.host # output.prev.host

\* C15: with replicas, a latency-probing call returns one of them, also
\* when every probe fails: then it is the one random.choice draws
C15_OutageStaysOnReplicas ==
    LatencyProbed =>
        /\ output.host \in Replicas
        /\ output.host # MANAGER_HOST
        /\ (output.probed /\ AllUnreachable) => output.host = WORKER_HOSTS[input.pick]

\* with every probe timing out, the second of three replicas has been
\* returned
C15_Witness ==
    /\ LatencyProbed
    /\ output.probed = TRUE
    /\ AllUnreachable
    /\ Len(WORKER_HOSTS) = 3
    /\ output.took = 3 * probe_timeout
    /\ output.host = WORKER_HOSTS[2]

\* C16: every decision is cached with the time of the call, and a call made
\* at the moment a probe round ends is served from the cache without probing
C16_NoProbeRightAfterRound ==
    LatencyProbed =>
        /\ output.probed =>
              /\ current_strategy.cached_best = output.host
              /\ current_strategy.cache_time = output.at
        /\ ( /\ output.prev # NoCall
             /\ output.prev.probed = TRUE
             /\ output.at = output.prev.at + output.prev.took )
              => output.probed = FALSE

-----------------------------------------------------------------------------
(* What the documentation says of routing under each strategy *)

\* the Router handled c's query, with the strategy `name` in force
RoutedUnder(c, name) ==
    /\ gw[c].pc = "done"
    /\ gw[c].proxy.invoked
    /\ gw[c].proxy.name_before = name

\* the Router has just handled a query
RouterHandles ==
    \E c \in DOMAIN gw : gw[c].pc = "forward" /\ gw'[c].pc = "done" /\ gw'[c].proxy.invoked

\* C17: with replicas and the random strategy in force, a READ goes to a
\* replica and never to the primary, a WRITE goes to the primary and the
\* response says so, and the draw leaves nothing behind in the strategy
C17_RandomReadsOnReplicas ==
    /\ [] \A c \in DOMAIN gw :
            (RoutedUnder(c, "random") /\ WORKER_HOSTS # << >>) =>
                /\ gw[c].proxy.query_type = "read" =>
                      /\ gw[c].proxy.target_host \in Replicas
                      /\ gw[c].proxy.target_host # MANAGER_HOST
                      /\ gw[c].proxy.probed = FALSE
                /\ gw[c].proxy.query_type = "write" =>
                      /\ gw[c].proxy.target_host = MANAGER_HOST
                      /\ gw[c].body.target_host = MANAGER_HOST
                /\ gw[c].body.target_host = gw[c].proxy.target_host
    /\ [][ (RouterHandles /\ current_strategy.cls = "RandomStrategy")
              => current_strategy' = current_strategy ]_vars

\* a READ has gone to the second replica under the random strategy while a
\* WRITE of the other caller is on its way
C17_Witness ==
    \E c \in Answered, d \in DOMAIN gw :
        /\ RoutedUnder(c, "random")
        /\ gw[c].proxy.query_type = "read"
        /\ gw[c].proxy.target_host = WORKER_HOSTS[2]
        /\ d # c
        /\ gw[d].pc = "forward"
        /\ gw[d].query = "INSERT x"

\* the Router's strategy has just been set, by the operator or for a
\* request of the Gatekeeper
StrategyCallReturns ==
    \/ obs'.kind = "set_strategy"
    \/ \E c \in DOMAIN gw : ChangeReturns(c)

\* C18: once the Router's strategy endpoint has answered 200 to
\* "customized", the customized instance is in force and stays so until the
\* next strategy call; READs are then sent to the replica it holds as best,
\* also for requests that name no strategy, where under direct_hit they all
\* went to the primary
C18_ChangeToCustomizedTakesEffect ==
    /\ [] \A c \in DOMAIN gw :
            /\ (RoutedUnder(c, "direct_hit") /\ gw[c].proxy.query_type = "read")
                  => gw[c].proxy.target_host = MANAGER_HOST
            /\ ( /\ RoutedUnder(c, "customized")
                 /\ gw[c].proxy.query_type = "read"
                 /\ WORKER_HOSTS # << >> ) =>
                  /\ gw[c].proxy.target_host \in Replicas
                  /\ current_strategy.cls = "CustomizedPingStrategy"
                  /\ current_strategy.cached_best = gw[c].proxy.target_host
    /\ [][ (obs'.kind = "set_strategy" /\ obs'.name = "customized") =>
              /\ obs'.status = 200
              /\ current_strategy_name' = "customized"
              /\ current_strategy'.cls = "CustomizedPingStrategy"
              /\ current_strategy'.cached_best = None ]_vars
    /\ [][ (current_strategy_name = "customized" /\ ~StrategyCallReturns)
              => /\ current_strategy_name' = "customized"
                 /\ current_strategy'.cls = "CustomizedPingStrategy" ]_vars

\* a READ that names no strategy has been served by a replica from the cache
\* of the customized strategy
C18_Witness ==
    \E c \in Answered :
        /\ RoutedUnder(c, "customized")
        /\ gw[c].endpoint = "/query"
        /\ gw[c].strategy = None
        /\ gw[c].proxy.query_type = "read"
        /\ gw[c].proxy.probed = FALSE
        /\ gw[c].proxy.target_host # MANAGER_HOST

\* C19 as stated: a query sent to /query/direct and answered by the Router is
\* served by the primary and reports the strategy direct_hit, whatever the
\* other caller does meanwhile
C19_PinnedDirectServedByPrimary ==
    \A c \in Answered :
        (gw[c].endpoint = "/query/direct" /\ gw[c].proxy.invoked) =>
            /\ gw[c].body.target_host = MANAGER_HOST
            /\ gw[c].body.strategy = "direct_hit"

\* C20: a request makes at most one query call to the Router, none when it
\* is refused; the Router, when called, tries the statement once, on one
\* host, and runs it once when nothing fails
C20_NoRetry ==
    \A c \in Answered :
        /\ gw[c].query_calls <= 1
        /\ gw[c].strategy_calls <= 1
        /\ gw[c].proxy.invoked <=> gw[c].query_calls = 1
        /\ gw[c].proxy.invoked =>
              /\ gw[c].proxy.db_opened <= 1
              /\ gw[c].proxy.db_executed <= 1
              /\ gw[c].proxy.db_executed = 1 <=> gw[c].proxy.db_opened = 1
              /\ gw[c].proxy.db_raised = None => gw[c].proxy.db_executed = 1
              /\ gw[c].proxy.target_host
                    \in { MANAGER_HOST } \cup Replicas

\* the response to a write the Router ran was lost, and the write was not
\* sent again
C20_Witness ==
    \E c \in Answered :
        /\ gw[c].transport = "lost_response"
        /\ gw[c].proxy.invoked
        /\ gw[c].proxy.query_type = "write"
        /\ gw[c].proxy.db_executed = 1
        /\ gw[c].query_calls = 1
        /\ gw[c].status = 502

-----------------------------------------------------------------------------
(* The registry of the Router: the pair (name, instance) *)

\* the key under which STRATEGIES holds the class of an instance
RegistryName(cls) ==
    CASE cls = "DirectHitStrategy" -> "direct_hit"
      [] cls = "RandomStrategy" -> "random"
      [] cls = "CustomizedPingStrategy" -> "customized"

Uninitialized == current_strategy = NoStrategy
Active == current_strategy # NoStrategy

\* C21: change_strategy replaces the pair (name, instance) as one unit: in
\* every state a query, GET /health or GET /strategy can find, the name told
\* is the registry name of the class of the active instance, never the name
\* of one strategy next to the instance of another.
C21_PairReplacedAsOne ==
    Active =>
        /\ current_strategy_name = RegistryName(current_strategy.cls)
        /\ health_check.strategy = RegistryName(current_strategy.cls)
        /\ get_current_strategy.strategy = RegistryName(current_strategy.cls)

\* the pair has been replaced twice, by two callers naming different
\* strategies, and the queries of both are still on their way to the Router
C21_Witness ==
    \E c, d \in DOMAIN gw :
        /\ c # d
        /\ gw[c].pc = "forward" /\ gw[d].pc = "forward"
        /\ gw[c].change = "delivered" /\ gw[d].change = "delivered"
        /\ gw[c].strategy = "customized" /\ gw[d].strategy = "random"
        /\ current_strategy_name = "random"
        /\ current_strategy.cls = "RandomStrategy"

\* the Router handled the query of c and its answer is with the Gatekeeper
RouterAnswered(c) ==
    /\ gw[c].pc = "done"
    /\ gw[c].proxy.invoked
    /\ gw[c].transport = "delivered"
    /\ gw[c].proxy.raised = None

\* C22: for every query the Router handles, one that overlaps a strategy
\* change of another caller included, the strategy named in the result is the
\* name of the strategy whose instance selected the reported target_host: it
\* is the registry name of that instance and the name the registry held when
\* the request was taken up.
C22_ReportedNameIsSelectingStrategy ==
    \A c \in DOMAIN gw :
        RouterAnswered(c) =>
            /\ gw[c].body.target_host = gw[c].proxy.target_host
            /\ gw[c].body.strategy = RegistryName(gw[c].proxy.selected_by)
            /\ gw[c].body.strategy = gw[c].proxy.name_before

\* a READ whose caller had set direct_hit was overtaken by another caller's
\* change to random: it is answered by a replica, and says random
C22_Witness ==
    \E c \in DOMAIN gw :
        /\ RouterAnswered(c)
        /\ gw[c].change = "delivered"
        /\ gw[c].strategy = "direct_hit"
        /\ gw[c].proxy.query_type = "read"
        /\ gw[c].body.strategy = "random"
        /\ gw[c].proxy.selected_by = "RandomStrategy"
        /\ gw[c].body.target_host # MANAGER_HOST

\* the pair { host, measured_at } a LatencyProbed instance keeps
NoCache == [ host |-> None, measured_at |-> 0 ]
CachedPair(cs) == [ host |-> cs.cached_best, measured_at |-> cs.cache_time ]
IsLatencyProbed(cs) == cs.cls = "CustomizedPingStrategy"

\* this step is the Router handling the query of c
RouterServes(c) == gw[c].pc = "forward" /\ gw'[c].pc = "done" /\ gw'[c].proxy.invoked

\* C23: however the read-target selections of concurrent requests fall on one
\* LatencyProbed instance, the cached pair is written by one selection round
\* as a whole: a selection that probed leaves the host it returned with the
\* time it began at, a selection that did not probe leaves the pair alone, and
\* nothing else touches the pair but the installation of a new instance, whose
\* pair is empty.
C23_CachedPairFromOneRound ==
    /\ [][ \A c \in DOMAIN gw :
             RouterServes(c) /\ IsLatencyProbed(current_strategy') =>
                IF gw'[c].proxy.probed
                THEN CachedPair(current_strategy') =
                        [ host |-> gw'[c].proxy.target_host, measured_at |-> now ]
                ELSE /\ IsLatencyProbed(current_strategy)
                     /\ CachedPair(current_strategy') = CachedPair(current_strategy) ]_vars
    /\ [][ (\A c \in DOMAIN gw : ~RouterServes(c)) /\ IsLatencyProbed(current_strategy') =>
             \/ CachedPair(current_strategy') = NoCache
             \/ /\ IsLatencyProbed(current_strategy)
                /\ CachedPair(current_strategy') = CachedPair(current_strategy) ]_vars

\* a READ was answered by a round that began after the process start, the
\* pair holds its host and its time, and the READ of another caller is on
\* its way to the same instance
C23_Witness ==
    \E c, d \in DOMAIN gw :
        /\ c # d
        /\ RouterAnswered(c) /\ gw[c].proxy.probed
        /\ IsLatencyProbed(current_strategy)
        /\ current_strategy.cache_time > BootTime
        /\ current_strategy.cached_best = gw[c].body.target_host
        /\ gw[d].pc = "forward" /\ gw[d].strategy = None
        /\ gw[d].query = "SELECT 1"

-----------------------------------------------------------------------------
(* The probe round of the latency-probing strategy *)

\* the seconds the probes of all the replicas take, one after the other
RoundSeconds ==
    LET secs(i) == IF i <= Len(WORKER_HOSTS) THEN input.probe[i].secs ELSE 0
    IN secs(1) + secs(2) + secs(3)

\* C24: a latency-probing call that probes, with at least one replica
\* answering, has probed every replica and returns a replica whose latency is
\* the least of all; a replica that did not answer (latency +infinity) is not
\* returned.
C24_ProbedMinimumWins ==
    (LatencyProbed /\ output.probed /\ ~AllUnreachable) =>
        /\ \E i \in 1..Len(WORKER_HOSTS) :
              /\ output.host = WORKER_HOSTS[i]
              /\ input.probe[i].lat # INF
              /\ \A j \in 1..Len(WORKER_HOSTS) :
                    input.probe[i].lat <= input.probe[j].lat
        /\ output.took = RoundSeconds

\* of three replicas the first timed out, the second answered and the third
\* answered faster: the third is returned
C24_Witness ==
    /\ LatencyProbed
    /\ output.probed
    /\ Len(WORKER_HOSTS) = 3
    /\ input.probe[1] = [ lat |-> INF, secs |-> probe_timeout ]
    /\ input.probe[2].lat = 2
    /\ input.probe[3].lat = 1
    /\ output.host = WORKER_HOSTS[3]
    /\ output.took = probe_timeout

-----------------------------------------------------------------------------
(* The Router's execute: one connection, one statement *)

\* the Router took up the query of c and ran execute_query for it
Executed(c) == gw[c].pc = "done" /\ gw[c].proxy.invoked

\* C25: execute opens one connection per call and releases it on every way
\* out: whether the call returned or raised, the connection it opened is
\* closed; when the connection could not be opened (no statement was run)
\* there is none, and nothing is closed.
C25_ConnectionReleasedOnEveryPath ==
    \A c \in DOMAIN gw :
        Executed(c) =>
            /\ gw[c].proxy.db_opened \in { 0, 1 }
            /\ gw[c].proxy.db_closed = gw[c].proxy.db_opened
            /\ gw[c].proxy.db_opened = 0 <=>
                  (gw[c].proxy.db_executed = 0 /\ gw[c].proxy.db_raised # None)
            /\ gw[c].proxy.db_raised = None => gw[c].proxy.db_opened = 1

\* a statement whose arguments did not fit raised TypeError through the
\* handler: the connection it ran on was opened and is closed
C25_Witness ==
    \E c \in DOMAIN gw :
        /\ Executed(c)
        /\ gw[c].proxy.db_raised = "TypeError"
        /\ gw[c].proxy.db_executed = 1
        /\ gw[c].proxy.db_opened = 1
        /\ gw[c].proxy.db_closed = 1

\* execute_query returned for the query of c
Ran(c) == Executed(c) /\ gw[c].proxy.db_raised = None

\* the statement of c begins with SELECT, in any case, after leading blanks
IsSelectStatement(c) == is_select_of(gw[c].query)

\* C26 as documented: execute commits exactly when the statement is not a
\* SELECT and returns the rows of a SELECT and the affected-row count
\* otherwise; so every READ runs without a commit and yields rows, and every
\* WRITE is committed on the primary.
C26_EveryWriteCommitted ==
    \A c \in DOMAIN gw :
        Ran(c) =>
            /\ gw[c].proxy.db_committed <=> ~IsSelectStatement(c)
            /\ gw[c].proxy.query_type = "read" =>
                  /\ ~gw[c].proxy.db_committed
                  /\ gw[c].proxy.response.data = "rows"
            /\ gw[c].proxy.query_type = "write" =>
                  /\ gw[c].proxy.db_committed
                  /\ gw[c].proxy.target_host = MANAGER_HOST

\* C26: execute commits exactly when the statement is not a SELECT and
\* returns the rows of a SELECT and the affected-row count otherwise, and
\* commits nothing when it raises; so every READ runs without a commit and
\* yields rows, and a WRITE runs on the primary, where it is committed unless
\* it is a locking SELECT (FOR UPDATE, FOR SHARE), which yields rows and is
\* not committed.
C26_CommitIffNotSelect ==
    \A c \in DOMAIN gw :
        /\ Executed(c) /\ ~Ran(c) => ~gw[c].proxy.db_committed
        /\ Ran(c) =>
            /\ gw[c].proxy.db_committed <=> ~IsSelectStatement(c)
            /\ IF IsSelectStatement(c)
               THEN /\ gw[c].proxy.response.data = "rows"
                    /\ gw[c].proxy.response.rows_affected = NoNum
               ELSE /\ gw[c].proxy.response.data = None
                    /\ gw[c].proxy.response.rows_affected # NoNum
            /\ gw[c].proxy.query_type = "read" =>
                  /\ IsSelectStatement(c)
                  /\ ~gw[c].proxy.db_committed
            /\ gw[c].proxy.query_type = "write" =>
                  /\ gw[c].proxy.target_host = MANAGER_HOST
                  /\ gw[c].proxy.db_committed <=> ~IsSelectStatement(c)

\* a locking SELECT was classified WRITE, ran on the primary, yielded rows
\* and was not committed
C26_Witness ==
    \E c \in DOMAIN gw :
        /\ Ran(c)
        /\ gw[c].query = "select 1 for update"
        /\ gw[c].proxy.query_type = "write"
        /\ gw[c].proxy.target_host = MANAGER_HOST
        /\ WORKER_HOSTS # << >>
        /\ gw[c].proxy.response.data = "rows"
        /\ ~gw[c].proxy.db_committed

-----------------------------------------------------------------------------
(* The life of the registry: Uninitialized -> Active(name, instance) *)

\* a and b are one strategy object: the cache a LatencyProbed instance keeps
\* is a field of the object, written without the registry being rebound
SameInstance(a, b) ==
    /\ a.cls = b.cls
    /\ a.cls # "None" =>
          /\ a.manager_host = b.manager_host
          /\ a.worker_hosts = b.worker_hosts

PairKept ==
    /\ current_strategy_name' = current_strategy_name
    /\ SameInstance(current_strategy, current_strategy')

\* this step is change_strategy: the startup of the Router, or a call of its
\* strategy endpoint by an operator or by the Gatekeeper
ChangeStrategyStep ==
    \/ obs'.kind \in { "startup", "set_strategy" }
    \/ \E c \in DOMAIN gw :
          /\ gw[c].pc = "change" /\ gw'[c].pc = "forward"
          /\ gw'[c].change # "connect_error"

\* C27: the registry goes Uninitialized -> Active(name, instance).  A query
\* that finds it Uninitialized activates direct_hit before its target is
\* resolved; once Active it is never Uninitialized again; its name is always
\* direct_hit, random or customized; and the pair changes only through
\* change_strategy, never by the routing of a query that finds it Active.
C27_RegistryLifeCycle ==
    /\ [](current_strategy_name \in { "direct_hit", "random", "customized" })
    /\ [][ Active => Active' ]_vars
    /\ [][ \A c \in DOMAIN gw :
             RouterServes(c) /\ Uninitialized =>
                /\ current_strategy' = DirectHitStrategy(MANAGER_HOST, WORKER_HOSTS)
                /\ current_strategy_name' = "direct_hit"
                /\ gw'[c].proxy.selected_by = "DirectHitStrategy"
                /\ gw'[c].proxy.target_host = MANAGER_HOST ]_vars
    /\ [][ (\E c \in DOMAIN gw : RouterServes(c)) /\ Active => PairKept ]_vars
    /\ [][ ~PairKept =>
             \/ ChangeStrategyStep
             \/ Uninitialized /\ \E c \in DOMAIN gw : RouterServes(c) ]_vars

\* a READ reached a Router with replicas before any strategy was set: the
\* registry is Active with direct_hit and the primary answered
C27_Witness ==
    \E c \in DOMAIN gw :
        /\ Executed(c)
        /\ gw[c].proxy.cls_before = "None"
        /\ gw[c].proxy.query_type = "read"
        /\ WORKER_HOSTS # << >>
        /\ Active
        /\ current_strategy_name = "direct_hit"
        /\ gw[c].proxy.target_host = MANAGER_HOST

-----------------------------------------------------------------------------
(* The topology *)

\* C28: the topology (the primary and the ordered list of replicas) is left
\* as it is by every operation: the routing of a query, the selection of a
\* read target, a probe round and the writing of the cache, a strategy change
\* that succeeds and one that fails; and every strategy instance is bound to
\* that topology.
C28_TopologyUnchanged ==
    /\ [][ MANAGER_HOST' = MANAGER_HOST /\ WORKER_HOSTS' = WORKER_HOSTS ]_vars
    /\ [](Active =>
            /\ current_strategy.manager_host = MANAGER_HOST
            /\ current_strategy.worker_hosts = WORKER_HOSTS)

\* a request named an unknown strategy, the Router refused it, and the READ
\* was routed by a probe round over three replicas whose first did not
\* answer; the cache is written
C28_Witness ==
    \E c \in DOMAIN gw :
        /\ Executed(c)
        /\ gw[c].strategy = "bogus"
        /\ gw[c].change = "delivered"
        /\ gw[c].proxy.probed
        /\ gw[c].proxy.target_host # WORKER_HOSTS[1]
        /\ current_strategy.cached_best = gw[c].proxy.target_host
        /\ WORKER_HOSTS = << "R1", "R2", "R3" >>

-----------------------------------------------------------------------------
(* A change of strategy installs a new instance *)

\* this step is a strategy call the Router accepted, and the name it set
AcceptedChange(name) ==
    \/ obs'.kind = "set_strategy" /\ obs'.status = 200 /\ obs'.name = name
    \/ \E c \in DOMAIN gw :
          /\ gw[c].pc = "change" /\ gw'[c].pc = "forward"
          /\ gw'[c].change # "connect_error"
          /\ gw[c].strategy = name

\* the READ of c came through the pinned customized endpoint, its strategy
\* call reached the Router, and customized was the strategy in force when
\* the Router took the query up
PinnedCustomizedRead(c) ==
    /\ Executed(c)
    /\ gw[c].endpoint = "/query/customized"
    /\ gw[c].change # "connect_error"
    /\ gw[c].proxy.query_type = "read"
    /\ gw[c].proxy.name_before = "customized"

-----------------------------------------------------------------------------
(* The hosts a latency-probing instance holds and returns *)

\* C30: in every state of a LatencyProbed instance the cached host is absent
\* or one of the replicas of the topology, never the primary; and with at
\* least one replica every host its read-target selection returns is one of
\* the replicas.
C30_CachedHostIsReplica ==
    /\ IsLatencyProbed(current_strategy) =>
          \/ current_strategy.cached_best = None
          \/ /\ current_strategy.cached_best \in Replicas
             /\ current_strategy.cached_best # MANAGER_HOST
    /\ (Selected /\ IsLatencyProbed(output.before) /\ WORKER_HOSTS # << >>) =>
          output.host \in Replicas

\* the instance holds the third replica, which a probe round had found, and
\* has just returned it from the cache
C30_Witness ==
    /\ Selected
    /\ IsLatencyProbed(current_strategy)
    /\ Len(WORKER_HOSTS) = 3
    /\ current_strategy.cached_best = WORKER_HOSTS[3]
    /\ output.probed = FALSE
    /\ output.prev # NoCall
    /\ output.prev.probed = TRUE
    /\ output.host = current_strategy.cached_best

=============================================================================
